---- MODULE Spec2Model ----
(***************************************************************************)
(* The ordering and delivery pipeline of derecho::MulticastGroup           *)
(* (src/derecho/multicast_group.cpp) for one subgroup whose single shard   *)
(* holds every member of the view.  Each handler that runs under           *)
(* msg_state_mtx, each SST trigger and each public operation is one        *)
(* action.  Every member keeps a local copy of every SST row; one-sided    *)
(* writes reach the other members at any later time, in issue order.       *)
(***************************************************************************)
EXTENDS Integers, Sequences, FiniteSets, TLC

\* ---------------------------------------------------------------- bounds
\* The senders of a view reserve at most MaxIndex per-sender indices together.
MaxIndex == 2
\* Largest pause_sending_turns a caller passes.
MaxPause == 1
\* Completions the network adds to the completion queue in one run.
MaxCompletions == 2

\* ------------------------------------------------------- views (inputs)
\* The views the group is constructed with: number of members, the sender
\* bitmap of the shard, DerechoParams.window_size, whether
\* DerechoParams.filename is non-empty (persistence), and the subgroup's mode.
View(n, senders, window, persist, mode) ==
    [n |-> n, senders |-> senders, window |-> window, persist |-> persist, mode |-> mode]
Views ==
    { View(2, (0 :> 1 @@ 1 :> 1), 1, FALSE, "ORDERED")
    , View(2, (0 :> 1 @@ 1 :> 0), 1, TRUE,  "ORDERED")
    , View(1, (0 :> 1),           2, TRUE,  "ORDERED")
    , View(2, (0 :> 1 @@ 1 :> 1), 1, FALSE, "RAW")
    }

\* Arguments of get_sendbuffer_ptr.
Mediums == {TRUE, FALSE}          \* transfer_medium: TRUE = RDMC, FALSE = SST slot
PauseTurns == 0 .. MaxPause
CookedSends == {FALSE}
NullSends == {FALSE}

None == [none |-> TRUE]

VARIABLES
    num_members,            \* members.size()
    shard_senders,          \* subgroup_to_senders_and_sender_rank[g].first
    window_size,            \* DerechoParams.window_size
    file_writer,            \* TRUE iff a FileWriter exists (persistence enabled)
    subgroup_to_mode,       \* "ORDERED" | "RAW"
    sst,                    \* sst[m][j]: member m's copy of row j of the SST
    received_intervals,     \* [m][sender rank]: per-sender indices received so far
    future_message_indices, \* [m]
    next_sends,             \* [m]: optional RDMCMessage
    pending_sends,          \* [m]: queue of RDMCMessage
    current_sends,          \* [m]: optional RDMCMessage
    current_receives,       \* [m]: map sequence number -> RDMCMessage
    locally_stable_rdmc_messages, \* [m]: map sequence number -> RDMCMessage
    locally_stable_sst_messages,  \* [m]: map sequence number -> SSTMessage
    non_persistent_messages,      \* [m]: map sequence number -> RDMCMessage
    non_persistent_sst_messages,  \* [m]: map sequence number -> SSTMessage
    free_message_buffers,   \* [m]: number of buffers in the free list
    last_transfer_medium,   \* [m]
    thread_shutdown,        \* [m]
    sender_thread,          \* [m]: "running" | "failed" (left by exception) | "exited"
    queued_num,             \* [m]: slot messages handed out by get_buffer
    num_sent,               \* [m]: slot messages committed by multicast send()
    rdmc_inflight,          \* [j][m]: bulk messages sent by j, not yet completed at m
    write_queue,            \* [m]: records handed to FileWriter::write_message
    aborted,                \* [m]: an assert of the code failed
    global_min,             \* ragged-edge vector published by the shard leader
    cleaned,                \* [m]: ragged-edge cleanup has run
    upcalls,                \* [m]: history of delivery upcalls
    tx_log,                 \* [m]: history of transmissions with the gate's state
    persist_log,            \* [m]: history of writer callbacks
    sent_log,               \* [m]: the indices m has passed to send()
    destroyed_groups,       \* [m]: the group numbers m passed to rdmc::destroy_group
    refused_calls,          \* the call of the application that returned early, if any
    installed,              \* [m]: m has built the group of the next view from this one
    tool,                   \* one run of the create_state_file executable
    handoff,                \* the constructor's loop over the subgroups of a node
    gmsSST,                 \* gmsSST[m][j]: node m's copy of row j of the membership SST
    last_suspected,         \* [m]: the suspicions m has already acted on
    curr_view,              \* [m]: the view m has installed
    crashed,                \* the nodes that have stopped
    loop,                   \* the sender thread and a wedge() call, step by step
    poll                    \* the completion-polling thread of the SST

cfgvars == <<num_members, shard_senders, window_size, file_writer, subgroup_to_mode>>
msgvars == <<received_intervals, future_message_indices, next_sends, pending_sends,
             current_sends, current_receives, locally_stable_rdmc_messages,
             locally_stable_sst_messages, non_persistent_messages,
             non_persistent_sst_messages, free_message_buffers, last_transfer_medium>>
thrvars == <<thread_shutdown, sender_thread, aborted, global_min, cleaned>>
netvars == <<queued_num, num_sent, rdmc_inflight, write_queue>>
histvars == <<upcalls, tx_log, persist_log, sent_log>>
callvars == <<destroyed_groups, refused_calls, installed>>
envvars == <<tool, handoff, gmsSST, last_suspected, curr_view, crashed, loop, poll>>
groupvars == <<cfgvars, sst, msgvars, thrvars, netvars, histvars, callvars>>
vars == <<groupvars, envvars>>

\* ------------------------------------------------------------- helpers
Members == 0 .. num_members - 1

Min(S) == CHOOSE x \in S : \A y \in S : x <= y
Max(S) == CHOOSE x \in S : \A y \in S : x >= y

EmptyMap == [x \in {} |-> None]
MapPut(f, k, v) == [x \in (DOMAIN f) \cup {k} |-> IF x = k THEN v ELSE f[x]]
MapEmplace(f, k, v) == IF k \in DOMAIN f THEN f ELSE MapPut(f, k, v)
MapErase(f, k) == [x \in (DOMAIN f) \ {k} |-> f[x]]

\* get_num_senders(shard_senders)
num_shard_senders == Cardinality({j \in DOMAIN shard_senders : shard_senders[j] # 0})
SenderRanks == 0 .. num_shard_senders - 1

\* subgroup_to_senders_and_sender_rank[g].second: rank among the senders, or -1
shard_sender_index(j) ==
    IF shard_senders[j] = 0 THEN -1
    ELSE Cardinality({k \in Members : k < j /\ shard_senders[k] # 0})

\* shard_ranks_by_sender_rank, composed with shard_members and node_id_to_sst_index
shard_ranks_by_sender_rank(r) ==
    CHOOSE j \in Members : shard_sender_index(j) = r

\* sizeof(header): header_size u32, index i64, pause_sending_turns u32,
\* cooked_send bool, with the alignment of the i64 field
sizeof_header == 24

\* DerechoParams of the group: max_payload_size and block_size
DerechoParams == [max_payload_size |-> 8, block_size |-> 16]

\* compute_max_msg_size: header and payload, rounded up to whole blocks
max_msg_size ==
    LET block_size == DerechoParams.block_size
        size == DerechoParams.max_payload_size + sizeof_header IN
    IF size % block_size # 0 THEN ((size \div block_size) + 1) * block_size ELSE size

\* payload_size arguments of get_sendbuffer_ptr: a small payload and one that
\* does not fit max_msg_size
PayloadSizes == {1, DerechoParams.max_payload_size + 1}

\* sequence_number = index * num_shard_senders + sender_rank
SeqOf(index, rank) == index * num_shard_senders + rank

RDMCMessage(sender, index, size, hindex, pause, cooked) ==
    [sender_id |-> sender, index |-> index, size |-> size,
     h_index |-> hindex, pause_sending_turns |-> pause, cooked_send |-> cooked]
\* mutant: the placeholder has a size
EmptyRDMCMessage_Sized(sender, index) == RDMCMessage(sender, index, sizeof_header + 1, 0, 0, FALSE)

\* {node_id, index, 0, 0}: a zero-size message without a buffer
EmptyRDMCMessage(sender, index) == RDMCMessage(sender, index, 0, 0, 0, FALSE)
\* buf is the slot of the sender's row the message borrows, or -1
SSTMessage(sender, index, size, slot) ==
    [sender_id |-> sender, index |-> index, size |-> size, buf |-> slot]

\* mutant: persisted_num is left at the zero the SST memory starts with
InitRow_Unset ==
    [num_received     |-> [r \in SenderRanks |-> -1],
     num_received_sst |-> [r \in SenderRanks |-> -1],
     seq_num |-> -1, stable_num |-> -1, delivered_num |-> -1, persisted_num |-> 0,
     slots |-> [s \in 0 .. window_size - 1 |->
                  [next_seq |-> 0, size |-> 0,
                   h_index |-> 0, pause_sending_turns |-> 0, cooked_send |-> FALSE]]]

\* initialize_sst_row, and the slots as sst::multicast_group initialises them
InitRow ==
    [num_received     |-> [r \in SenderRanks |-> -1],
     num_received_sst |-> [r \in SenderRanks |-> -1],
     seq_num |-> -1, stable_num |-> -1, delivered_num |-> -1, persisted_num |-> -1,
     slots |-> [s \in 0 .. window_size - 1 |->
                  [next_seq |-> 0, size |-> 0,
                   h_index |-> 0, pause_sending_turns |-> 0, cooked_send |-> FALSE]]]

OwnRow(m) == sst[m][m]

\* ---------------------------------------------------------------- Init
InitGroup(views) ==
    /\ \E v \in views :
        /\ num_members = v.n
        /\ shard_senders = v.senders
        /\ window_size = v.window
        /\ file_writer = v.persist
        /\ subgroup_to_mode = v.mode
    /\ sst = [m \in Members |-> [j \in Members |-> InitRow]]
    /\ received_intervals = [m \in Members |-> [r \in SenderRanks |-> {}]]
    /\ future_message_indices = [m \in Members |-> 0]
    /\ next_sends = [m \in Members |-> None]
    /\ pending_sends = [m \in Members |-> <<>>]
    /\ current_sends = [m \in Members |-> None]
    /\ current_receives = [m \in Members |-> EmptyMap]
    /\ locally_stable_rdmc_messages = [m \in Members |-> EmptyMap]
    /\ locally_stable_sst_messages = [m \in Members |-> EmptyMap]
    /\ non_persistent_messages = [m \in Members |-> EmptyMap]
    /\ non_persistent_sst_messages = [m \in Members |-> EmptyMap]
    /\ free_message_buffers = [m \in Members |-> window_size * num_members]
    /\ last_transfer_medium = [m \in Members |-> FALSE]
    /\ thread_shutdown = [m \in Members |-> FALSE]
    /\ sender_thread = [m \in Members |-> "running"]
    /\ queued_num = [m \in Members |-> 0]
    /\ num_sent = [m \in Members |-> 0]
    /\ rdmc_inflight = [j \in Members |-> [m \in Members |-> <<>>]]
    /\ write_queue = [m \in Members |-> <<>>]
    /\ aborted = [m \in Members |-> FALSE]
    /\ global_min = [ready |-> FALSE, min |-> [s \in SenderRanks |-> -1]]
    /\ cleaned = [m \in Members |-> FALSE]
    /\ upcalls = [m \in Members |-> <<>>]
    /\ tx_log = [m \in Members |-> {}]
    /\ persist_log = [m \in Members |-> <<>>]
    /\ sent_log = [m \in Members |-> {}]
    /\ destroyed_groups = [m \in Members |-> <<>>]
    /\ refused_calls = <<>>
    /\ installed = [m \in Members |-> FALSE]

\* no run of the executable
ToolIdle ==
    [pc |-> "none", argv |-> <<>>, stdin_ok |-> TRUE, writable |-> {}, parsed |-> FALSE,
     files |-> {}, stdout |-> <<>>, exit |-> 0, signal |-> "none"]

\* no view transition over several subgroups
HandoffIdle ==
    [pc |-> "none", me |-> 0, todo |-> {}, given_npm |-> <<>>, given_npsm |-> <<>>,
     old_npm |-> <<>>, old_npsm |-> <<>>, new_npm |-> <<>>, new_npsm |-> <<>>,
     future_message_indices |-> <<>>]

\* the membership service before any failure: every node holds view 0 with all
\* nodes, and every row of the membership SST is in the steady state
GmsNodes == {0, 1, 2}

GmsView == [vid |-> 0, members |-> GmsNodes, failed |-> {}]

GmsIdle ==
    /\ gmsSST = [m \in GmsNodes |-> [j \in GmsNodes |->
                    [suspected |-> {}, changes |-> <<>>,
                     nChanges |-> 0, nAcked |-> 0, nCommitted |-> 0, nInstalled |-> 0]]]
    /\ last_suspected = [m \in GmsNodes |-> {}]
    /\ curr_view = [m \in GmsNodes |-> GmsView]
    /\ crashed = {}

\* the threads that are followed step by step, at rest: the sender thread at
\* the head of its loop with nothing to send and no wedge() called; the
\* polling thread not started
LoopSubgroups == {0, 1, 2}

ThreadsIdle ==
    /\ loop = [pc |-> "while", thread_shutdown |-> FALSE, wedge |-> "none",
               subgroup_to_send |-> 0,
               admissible |-> [g \in LoopSubgroups |-> FALSE],
               waited |-> [g \in LoopSubgroups |-> 0]]
    /\ poll = [pc |-> "none", shutdown |-> FALSE, cq |-> <<>>, taken |-> <<>>,
               wc |-> None, polled |-> FALSE, poll_result |-> 0, entries |-> <<>>]

InitViews(views) ==
    InitGroup(views) /\ tool = ToolIdle /\ handoff = HandoffIdle /\ GmsIdle /\ ThreadsIdle

Init == InitViews(Views)

\* ------------------------------------------------ get_sendbuffer_ptr, send
\* the group object of member m is in use: no assert failed; the group of the
\* next view, once built from this one, runs when every member has built its own
Running(m) == ~aborted[m] /\ (installed[m] => \A n \in Members : installed[n])

\* mutant: the window closes one sequence number early
WindowOpen_OffByOne(m) ==
    IF subgroup_to_mode # "RAW"
    THEN \A i \in Members :
            ~(sst[m][i].delivered_num <=
                (future_message_indices[m] - window_size) * num_shard_senders
                    + shard_sender_index(m))
    ELSE \A i \in Members :
            ~(sst[m][i].num_received[shard_sender_index(m)] <
                future_message_indices[m] - window_size)

\* the flow-control test of get_sendbuffer_ptr, lines 1105-1118
WindowOpen(m) ==
    IF subgroup_to_mode # "RAW"
    THEN \A i \in Members :
            ~(sst[m][i].delivered_num <
                (future_message_indices[m] - window_size) * num_shard_senders
                    + shard_sender_index(m))
    ELSE \A i \in Members :
            ~(sst[m][i].num_received[shard_sender_index(m)] <
                future_message_indices[m] - window_size)

MsgSize(payload_size, null_send) ==
    IF null_send THEN sizeof_header
    ELSE IF payload_size = 0 THEN max_msg_size
    ELSE payload_size + sizeof_header

\* sst::multicast_group::get_buffer: a slot is free when fewer than window_size
\* slot messages of this sender are not yet received by every shard member
get_buffer_ok(m) ==
    queued_num[m] - (Min({sst[m][i].num_received_sst[shard_sender_index(m)] : i \in Members}) + 1)
        < window_size

\* TRUE iff get_sendbuffer_ptr(subgroup, payload_size, medium, ...) returns NULL
ReturnsNull(m, payload_size, medium, null_send) ==
    \/ MsgSize(payload_size, null_send) > max_msg_size
    \/ ~WindowOpen(m)
    \/ thread_shutdown[m]
    \/ medium /\ free_message_buffers[m] = 0
    \/ ~medium /\ ~get_buffer_ok(m)

RECURSIVE SumTo(_, _)
SumTo(f, n) == IF n < 0 THEN 0 ELSE f[n] + SumTo(f, n - 1)

NoOutstandingBuffer(m) == next_sends[m] = None /\ queued_num[m] = num_sent[m]

\* the callers stop reserving indices at MaxIndex
WithinBounds(pause) ==
    SumTo(future_message_indices, num_members - 1) + pause + 1 <= MaxIndex

get_sendbuffer_ptr(m, payload_size, medium, pause, cooked, null_send) ==
    /\ Running(m)
    /\ shard_sender_index(m) >= 0
    /\ ~ReturnsNull(m, payload_size, medium, null_send)
    /\ LET index == future_message_indices[m]
           size == MsgSize(payload_size, null_send)
           slot == queued_num[m] % window_size
       IN
       IF medium
       THEN /\ free_message_buffers' = [free_message_buffers EXCEPT ![m] = @ - 1]
            /\ next_sends' = [next_sends EXCEPT
                    ![m] = RDMCMessage(m, index, size, index, pause, cooked)]
            /\ UNCHANGED <<sst, queued_num>>
       ELSE /\ sst' = [sst EXCEPT ![m][m].slots[slot] =
                    [@ EXCEPT !.size = size, !.h_index = index,
                              !.pause_sending_turns = pause, !.cooked_send = cooked]]
            /\ queued_num' = [queued_num EXCEPT ![m] = @ + 1]
            /\ UNCHANGED <<free_message_buffers, next_sends>>
    /\ future_message_indices' = [future_message_indices EXCEPT ![m] = @ + pause + 1]
    /\ last_transfer_medium' = [last_transfer_medium EXCEPT ![m] = medium]
    /\ UNCHANGED <<cfgvars, envvars, callvars, received_intervals, pending_sends, current_sends,
                   current_receives, locally_stable_rdmc_messages,
                   locally_stable_sst_messages, non_persistent_messages,
                   non_persistent_sst_messages, thrvars, num_sent, rdmc_inflight,
                   write_queue, histvars>>

\* what the flow-control condition of the spec says about a message index,
\* read on the sender's copy of the table
DeliveredGate(m, index) ==
    \A i \in Members :
        sst[m][i].delivered_num >=
            (index - window_size) * num_shard_senders + shard_sender_index(m)
TxRecord(m, index, medium) ==
    [index |-> index, medium |-> medium,
     delivered_ok |-> DeliveredGate(m, index),
     persisted_ok |-> \A i \in Members :
                        sst[m][i].persisted_num >=
                            (index - window_size) * num_shard_senders + shard_sender_index(m)]

send(m) ==
    /\ Running(m)
    /\ ~thread_shutdown[m]
    /\ IF last_transfer_medium[m]
       THEN /\ next_sends[m] # None
            /\ pending_sends' = [pending_sends EXCEPT ![m] = Append(@, next_sends[m])]
            /\ next_sends' = [next_sends EXCEPT ![m] = None]
            /\ sent_log' = [sent_log EXCEPT ![m] = @ \cup {next_sends[m].index}]
            /\ UNCHANGED <<sst, num_sent, tx_log>>
       ELSE /\ queued_num[m] > num_sent[m]
            /\ LET slot == num_sent[m] % window_size IN
               /\ sst' = [sst EXCEPT ![m][m].slots[slot].next_seq = @ + 1]
               /\ tx_log' = [tx_log EXCEPT ![m] =
                     @ \cup {TxRecord(m, OwnRow(m).slots[slot].h_index, FALSE)}]
               /\ sent_log' = [sent_log EXCEPT ![m] = @ \cup {OwnRow(m).slots[slot].h_index}]
            /\ num_sent' = [num_sent EXCEPT ![m] = @ + 1]
            /\ UNCHANGED <<pending_sends, next_sends>>
    /\ UNCHANGED <<cfgvars, envvars, callvars, received_intervals, future_message_indices, current_sends,
                   current_receives, locally_stable_rdmc_messages,
                   locally_stable_sst_messages, non_persistent_messages,
                   non_persistent_sst_messages, free_message_buffers,
                   last_transfer_medium, thrvars, queued_num, rdmc_inflight,
                   write_queue, upcalls, persist_log>>

\* -------------------------------------------------------------- send_loop
\* should_send_to_subgroup without the test of num_received against msg.index - 1
should_send_to_subgroup_Eager(m) ==
    /\ pending_sends[m] # <<>>
    /\ LET msg == Head(pending_sends[m]) IN
       IF subgroup_to_mode # "RAW"
       THEN \A i \in Members :
             ~(\/ sst[m][i].delivered_num <
                     (msg.index - window_size) * num_shard_senders
                         + shard_sender_index(m)
               \/ (file_writer /\ sst[m][i].persisted_num <
                     (msg.index - window_size) * num_shard_senders
                         + shard_sender_index(m)))
       ELSE \A i \in Members :
             ~(sst[m][i].num_received[shard_sender_index(m)] <
                 future_message_indices[m] - 1 - window_size)

should_send_to_subgroup(m) ==
    /\ pending_sends[m] # <<>>
    /\ LET msg == Head(pending_sends[m]) IN
       /\ ~(OwnRow(m).num_received[shard_sender_index(m)] < msg.index - 1)
       /\ IF subgroup_to_mode # "RAW"
          THEN \A i \in Members :
                ~(\/ sst[m][i].delivered_num <
                        (msg.index - window_size) * num_shard_senders
                            + shard_sender_index(m)
                  \/ (file_writer /\ sst[m][i].persisted_num <
                        (msg.index - window_size) * num_shard_senders
                            + shard_sender_index(m)))
          ELSE \A i \in Members :
                ~(sst[m][i].num_received[shard_sender_index(m)] <
                    future_message_indices[m] - 1 - window_size)

WireOf(msg) == [h_index |-> msg.h_index, pause_sending_turns |-> msg.pause_sending_turns,
                cooked_send |-> msg.cooked_send, size |-> msg.size]

send_loop(m) ==
    /\ Running(m)
    /\ sender_thread[m] = "running"
    /\ ~thread_shutdown[m]
    /\ should_send_to_subgroup(m)
    /\ LET msg == Head(pending_sends[m]) IN
       /\ current_sends' = [current_sends EXCEPT ![m] = msg]
       \* create_rdmc_sst_groups creates no RDMC group for a shard of one member
       /\ IF num_members > 1
          THEN /\ pending_sends' = [pending_sends EXCEPT ![m] = Tail(@)]
               /\ rdmc_inflight' = [rdmc_inflight EXCEPT ![m] =
                     [i \in Members |-> IF i = m THEN @[i] ELSE Append(@[i], WireOf(msg))]]
               /\ tx_log' = [tx_log EXCEPT ![m] = @ \cup {TxRecord(m, msg.index, TRUE)}]
               /\ UNCHANGED sender_thread
          ELSE \* rdmc::send returned false: the thread leaves its loop (1042-1051)
               /\ sender_thread' = [sender_thread EXCEPT ![m] = "failed"]
               /\ UNCHANGED <<pending_sends, rdmc_inflight, tx_log>>
    /\ UNCHANGED <<cfgvars, envvars, callvars, sst, received_intervals, future_message_indices, next_sends,
                   current_receives, locally_stable_rdmc_messages,
                   locally_stable_sst_messages, non_persistent_messages,
                   non_persistent_sst_messages, free_message_buffers,
                   last_transfer_medium, thread_shutdown, aborted, global_min, cleaned,
                   queued_num, num_sent, write_queue, upcalls, persist_log, sent_log>>

\* ------------------------------------------------------ receive handlers
\* resolve_num_received: record indices beg..end of one sender as received and
\* return the largest index below which nothing is missing
resolve_intervals(intervals, beg_index, end_index) ==
    intervals \cup (beg_index .. end_index)

resolve_num_received(intervals, beg_index, end_index) ==
    LET S == resolve_intervals(intervals, beg_index, end_index) IN
    IF 0 \notin S THEN -1 ELSE Max({n \in S : \A k \in 0 .. n : k \in S})

\* mutant: of several positions holding the least value the last is taken
MinIndex_Last(num_received) ==
    Max({r \in DOMAIN num_received :
            \A q \in DOMAIN num_received : num_received[r] <= num_received[q]})

\* std::min_element over num_received[offset .. offset + num_shard_senders):
\* the first position holding the least value
MinIndex(num_received) ==
    Min({r \in DOMAIN num_received :
            \A q \in DOMAIN num_received : num_received[r] <= num_received[q]})

\* mutant: the sequence number follows the sender that is furthest ahead
new_seq_num_Max(num_received) ==
    LET max_index == Min({r \in DOMAIN num_received :
            \A q \in DOMAIN num_received : num_received[r] >= num_received[q]}) IN
    (num_received[max_index] + 1) * num_shard_senders + max_index - 1

new_seq_num(num_received) ==
    LET min_index == MinIndex(num_received) IN
    (num_received[min_index] + 1) * num_shard_senders + min_index - 1

\* the zero-size messages for the turns the sender skips
RECURSIVE AddEmptyRdmc(_, _, _, _, _)
AddEmptyRdmc(map, node_id, index, sequence_number, turns) ==
    IF turns = 0 THEN map
    ELSE AddEmptyRdmc(MapPut(map, sequence_number + num_shard_senders,
                             EmptyRDMCMessage(node_id, index + 1)),
                      node_id, index + 1, sequence_number + num_shard_senders, turns - 1)

RECURSIVE AddEmptySst(_, _, _, _, _)
AddEmptySst(map, node_id, index, sequence_number, turns) ==
    IF turns = 0 THEN map
    ELSE AddEmptySst(MapPut(map, sequence_number + num_shard_senders,
                            SSTMessage(node_id, index + 1, 0, -1)),
                     node_id, index + 1, sequence_number + num_shard_senders, turns - 1)

\* an upcall with the arguments the callback gets; size is the payload length
Upcall(kind, sender, index, size) ==
    [kind |-> kind, sender |-> sender, index |-> index, size |-> size]

\* the state a receive handler works on
ReceiveState(m) ==
    [row |-> OwnRow(m), lsr |-> locally_stable_rdmc_messages[m],
     lss |-> locally_stable_sst_messages[m], ri |-> received_intervals[m],
     free |-> free_message_buffers[m], up |-> upcalls[m], failed |-> FALSE]

\* Raw mode (lines 386-417 and 704-735): stability upcalls for the messages
\* i .. new_num_received of one sender, taken from the head of the queues
RECURSIVE RawLoop(_, _, _, _)
RawLoop(st, i, new_num_received, sender_rank) ==
    IF i > new_num_received \/ st.failed THEN st
    ELSE LET seq_num == i * num_shard_senders + sender_rank IN
         IF DOMAIN st.lss # {} /\ Min(DOMAIN st.lss) = seq_num
         THEN LET msg == st.lss[seq_num] IN
              RawLoop([st EXCEPT
                        !.up = IF msg.size > 0
                               THEN Append(@, Upcall("stability", msg.sender_id, msg.index,
                                                  msg.size - sizeof_header))
                               ELSE @,
                        !.lss = MapErase(@, seq_num)],
                      i + 1, new_num_received, sender_rank)
         ELSE IF DOMAIN st.lsr = {} \/ Min(DOMAIN st.lsr) # seq_num
         THEN [st EXCEPT !.failed = TRUE]
         ELSE LET msg == st.lsr[seq_num] IN
              RawLoop([st EXCEPT
                        !.up = IF msg.size > 0
                               THEN Append(@, Upcall("stability", msg.sender_id, msg.index,
                                                  msg.size - sizeof_header))
                               ELSE @,
                        !.free = IF msg.size > 0 THEN @ + 1 ELSE @,
                        !.lsr = MapErase(@, seq_num)],
                      i + 1, new_num_received, sender_rank)

RawDeliver(st, sender_rank, new_num_received) ==
    IF subgroup_to_mode = "RAW"
    THEN RawLoop(st, st.row.num_received[sender_rank] + 1, new_num_received, sender_rank)
    ELSE st

\* rdmc_receive_handler from line 377 on: st.lsr already holds the message
RdmcReceived(st, node_id, h) ==
    LET sender_rank == shard_sender_index(node_id)
        index == h.h_index
        sequence_number == index * num_shard_senders + sender_rank
        end_index == index + h.pause_sending_turns
        new_num_received == resolve_num_received(st.ri[sender_rank], index, end_index)
        st1 == [st EXCEPT
                  !.lsr = AddEmptyRdmc(@, node_id, index, sequence_number,
                                       h.pause_sending_turns),
                  !.ri[sender_rank] = resolve_intervals(@, index, end_index)]
        st2 == RawDeliver(st1, sender_rank, new_num_received)
        \* lines 418-442: publish num_received and seq_num after a bulk receipt
        nr == [st2.row.num_received EXCEPT ![sender_rank] = new_num_received]
        sn == new_seq_num(nr)
    IN IF new_num_received > st2.row.num_received[sender_rank]
       THEN [st2 EXCEPT !.row.num_received = nr,
                        !.row.seq_num = IF sn > @ THEN sn ELSE @]
       ELSE st2

Abort(m) ==
    /\ aborted' = [aborted EXCEPT ![m] = TRUE]
    /\ UNCHANGED <<cfgvars, envvars, callvars, sst, msgvars, thread_shutdown, sender_thread, global_min,
                   cleaned, netvars, histvars>>

\* write a receive state back
Received(m, st) ==
    /\ sst' = [sst EXCEPT ![m][m] = st.row]
    /\ locally_stable_rdmc_messages' = [locally_stable_rdmc_messages EXCEPT ![m] = st.lsr]
    /\ locally_stable_sst_messages' = [locally_stable_sst_messages EXCEPT ![m] = st.lss]
    /\ received_intervals' = [received_intervals EXCEPT ![m] = st.ri]
    /\ free_message_buffers' = [free_message_buffers EXCEPT ![m] = st.free]
    /\ upcalls' = [upcalls EXCEPT ![m] = st.up]

\* create_rdmc_sst_groups numbers the groups of the shard from
\* rdmc_group_num_offset (0 at construction) in sender-rank order and
\* increments the offset once per group it creates
rdmc_groups_created == IF num_members <= 1 THEN {} ELSE SenderRanks

\* the group of sender j still delivers completions at m: it was created and
\* m never passed its number to rdmc::destroy_group
RdmcGroupsAlive(m, j) ==
    /\ Running(m)
    /\ shard_sender_index(j) \in rdmc_groups_created
    /\ \A k \in DOMAIN destroyed_groups[m] :
            destroyed_groups[m][k] # shard_sender_index(j)

\* completion of this node's own bulk send (lines 366-369)
rdmc_receive_handler_self(m) ==
    /\ RdmcGroupsAlive(m, m)
    /\ current_sends[m] # None
    /\ LET msg == current_sends[m]
           sequence_number == msg.h_index * num_shard_senders + shard_sender_index(m)
           st == RdmcReceived([ReceiveState(m) EXCEPT
                                  !.lsr = MapPut(@, sequence_number, msg)],
                              m, WireOf(msg))
       IN IF st.failed THEN Abort(m)
          ELSE /\ Received(m, st)
               /\ current_sends' = [current_sends EXCEPT ![m] = None]
               /\ UNCHANGED <<cfgvars, envvars, callvars, future_message_indices, next_sends, pending_sends,
                              current_receives, non_persistent_messages,
                              non_persistent_sst_messages, last_transfer_medium,
                              thrvars, netvars, tx_log, persist_log, sent_log>>

ReceivingFrom(m, j) == \E k \in DOMAIN current_receives[m] :
                            current_receives[m][k].sender_id = j

\* the destination-select callback of the RDMC group of sender j (lines 480-497)
rdmc_receive_destination(m, j) ==
    /\ RdmcGroupsAlive(m, j)
    /\ j # m
    /\ rdmc_inflight[j][m] # <<>>
    /\ ~ReceivingFrom(m, j)
    /\ IF free_message_buffers[m] = 0
       THEN Abort(m)
       ELSE LET sender_rank == shard_sender_index(j)
                index == OwnRow(m).num_received[sender_rank] + 1
                length == Head(rdmc_inflight[j][m]).size
                sequence_number == index * num_shard_senders + sender_rank
            IN
            /\ free_message_buffers' = [free_message_buffers EXCEPT ![m] = @ - 1]
            /\ current_receives' = [current_receives EXCEPT ![m] =
                    MapPut(@, sequence_number, RDMCMessage(j, index, length, 0, 0, FALSE))]
            /\ UNCHANGED <<cfgvars, envvars, callvars, sst, received_intervals, future_message_indices,
                           next_sends, pending_sends, current_sends,
                           locally_stable_rdmc_messages, locally_stable_sst_messages,
                           non_persistent_messages, non_persistent_sst_messages,
                           last_transfer_medium, thrvars, netvars, histvars>>

\* completion of a bulk receive from sender j (lines 370-376)
rdmc_receive_handler(m, j) ==
    /\ RdmcGroupsAlive(m, j)
    /\ j # m
    /\ rdmc_inflight[j][m] # <<>>
    /\ ReceivingFrom(m, j)
    /\ LET h == Head(rdmc_inflight[j][m])
           sequence_number == h.h_index * num_shard_senders + shard_sender_index(j)
       IN
       IF sequence_number \notin DOMAIN current_receives[m]
       THEN Abort(m)
       ELSE LET message == [current_receives[m][sequence_number] EXCEPT
                                !.h_index = h.h_index,
                                !.pause_sending_turns = h.pause_sending_turns,
                                !.cooked_send = h.cooked_send]
                st == RdmcReceived([ReceiveState(m) EXCEPT
                                       !.lsr = MapEmplace(@, sequence_number, message)],
                                   j, h)
            IN IF st.failed THEN Abort(m)
               ELSE
               /\ Received(m, st)
               /\ current_receives' = [current_receives EXCEPT ![m] =
                       MapErase(@, sequence_number)]
               /\ rdmc_inflight' = [rdmc_inflight EXCEPT ![j][m] = Tail(@)]
               /\ UNCHANGED <<cfgvars, envvars, callvars, future_message_indices, next_sends, pending_sends,
                              current_sends, non_persistent_messages,
                              non_persistent_sst_messages, last_transfer_medium, thrvars,
                              queued_num, num_sent, write_queue, tx_log, persist_log, sent_log>>

\* ---- slot path: receiver_pred / receiver_trig / sst_receive_handler
SlotReady(m, j, num_received_sst) ==
    LET num_received == num_received_sst[j] + 1 IN
    sst[m][shard_ranks_by_sender_rank(j)].slots[num_received % window_size].next_seq
        = (num_received \div window_size) + 1

\* mutant: the new count is resolved without the indices received before
sst_receive_handler_Forgetful(m, st, sender_rank, slot) ==
    LET data == sst[m][shard_ranks_by_sender_rank(sender_rank)].slots[slot]
        index == data.h_index
        sequence_number == index * num_shard_senders + sender_rank
        node_id == shard_ranks_by_sender_rank(sender_rank)
        end_index == index + data.pause_sending_turns
        new_num_received == resolve_num_received({}, index, end_index)
        st1 == [st EXCEPT
                  !.lss = AddEmptySst(
                            MapPut(@, sequence_number,
                                   SSTMessage(node_id, index, data.size, slot)),
                            node_id, index, sequence_number, data.pause_sending_turns),
                  !.ri[sender_rank] = resolve_intervals(@, index, end_index)]
        st2 == RawDeliver(st1, sender_rank, new_num_received)
    IN [st2 EXCEPT !.row.num_received[sender_rank] = new_num_received]

\* sst_receive_handler, lines 681-737
sst_receive_handler(m, st, sender_rank, slot) ==
    LET data == sst[m][shard_ranks_by_sender_rank(sender_rank)].slots[slot]
        index == data.h_index
        sequence_number == index * num_shard_senders + sender_rank
        node_id == shard_ranks_by_sender_rank(sender_rank)
        end_index == index + data.pause_sending_turns
        new_num_received == resolve_num_received(st.ri[sender_rank], index, end_index)
        st1 == [st EXCEPT
                  !.lss = AddEmptySst(
                            MapPut(@, sequence_number,
                                   SSTMessage(node_id, index, data.size, slot)),
                            node_id, index, sequence_number, data.pause_sending_turns),
                  !.ri[sender_rank] = resolve_intervals(@, index, end_index)]
        st2 == RawDeliver(st1, sender_rank, new_num_received)
    IN [st2 EXCEPT !.row.num_received[sender_rank] = new_num_received]

RECURSIVE ReceiverLoop(_, _, _)
ReceiverLoop(m, st, k) ==
    \* num_times = window_size / 2, at least 1
    IF k = (IF window_size \div 2 = 0 THEN 1 ELSE window_size \div 2) * num_shard_senders
       \/ st.failed THEN st
    ELSE LET j == k % num_shard_senders
             num_received == st.row.num_received_sst[j] + 1
         IN IF SlotReady(m, j, st.row.num_received_sst)
            THEN LET st1 == sst_receive_handler(m, st, j, num_received % window_size)
                 IN ReceiverLoop(m, [st1 EXCEPT !.row.num_received_sst[j] = num_received],
                                 k + 1)
            ELSE ReceiverLoop(m, st, k + 1)

receiver_trig(m) ==
    /\ Running(m)
    /\ ~thread_shutdown[m]
    /\ \E j \in SenderRanks : SlotReady(m, j, OwnRow(m).num_received_sst)
    /\ LET st == ReceiverLoop(m, ReceiveState(m), 0)
           sn == new_seq_num(st.row.num_received)
       IN IF st.failed THEN Abort(m)
          ELSE /\ Received(m, [st EXCEPT !.row.seq_num = IF sn > @ THEN sn ELSE @])
               /\ UNCHANGED <<cfgvars, envvars, callvars, future_message_indices, next_sends, pending_sends,
                              current_sends, current_receives, non_persistent_messages,
                              non_persistent_sst_messages, last_transfer_medium, thrvars,
                              netvars, tx_log, persist_log, sent_log>>

\* ------------------------------------------------ stability and delivery
\* mutant: the trigger reads only its own row
MinSeqNum_OwnRow(m) == sst[m][m].seq_num

MinSeqNum(m) == Min({sst[m][i].seq_num : i \in Members})

stability_trig(m) ==
    /\ subgroup_to_mode # "RAW"
    /\ Running(m)
    /\ ~thread_shutdown[m]
    /\ MinSeqNum(m) > OwnRow(m).stable_num
    /\ sst' = [sst EXCEPT ![m][m].stable_num = MinSeqNum(m)]
    /\ UNCHANGED <<cfgvars, envvars, callvars, msgvars, thrvars, netvars, histvars>>

\* deliver_message computes the sender's rank by walking the shard members
SenderRankWalk(sender_id) ==
    Cardinality({k \in Members : k < sender_id /\ shard_senders[k] # 0})

WriteRecord(sender, index) == [sender |-> sender, index |-> index]

\* the delivery state threaded through the delivery loops
DeliveryState(m) ==
    [lsr |-> locally_stable_rdmc_messages[m], lss |-> locally_stable_sst_messages[m],
     npm |-> non_persistent_messages[m], npsm |-> non_persistent_sst_messages[m],
     free |-> free_message_buffers[m], wq |-> write_queue[m], up |-> upcalls[m],
     delivered_num |-> OwnRow(m).delivered_num, update_sst |-> FALSE]

\* deliver_message(RDMCMessage&, subgroup_num)
deliver_rdmc_message(st, msg) ==
    IF msg.size > 0
    THEN LET st1 == [st EXCEPT !.up = Append(@,
                        Upcall(IF msg.cooked_send THEN "rpc" ELSE "stability",
                               msg.sender_id, msg.index, msg.size - sizeof_header))]
         IN IF file_writer
            THEN LET sequence_number ==
                        msg.index * num_shard_senders + SenderRankWalk(msg.sender_id)
                 IN [st1 EXCEPT !.npm = MapEmplace(@, sequence_number, msg),
                                !.wq = Append(@, WriteRecord(msg.sender_id, msg.index))]
            ELSE [st1 EXCEPT !.free = @ + 1]
    ELSE st

\* deliver_message(SSTMessage&, subgroup_num); the header is read in the slot
deliver_sst_message(m, st, msg) ==
    IF msg.size > 0
    THEN LET h == sst[m][msg.sender_id].slots[msg.buf]
             st1 == [st EXCEPT !.up = Append(@,
                        Upcall(IF h.cooked_send THEN "rpc" ELSE "stability",
                               msg.sender_id, msg.index, msg.size - sizeof_header))]
         IN IF file_writer
            THEN LET sequence_number ==
                        msg.index * num_shard_senders + SenderRankWalk(msg.sender_id)
                 IN [st1 EXCEPT !.npsm = MapEmplace(@, sequence_number, msg),
                                !.wq = Append(@, WriteRecord(msg.sender_id, msg.index))]
            ELSE st1
    ELSE st

\* std::numeric_limits<long long int>::max(), the "no message" value of the
\* delivery loop; any value above every sequence number acts the same
LLongMax == 2147483647

\* mutant: the trigger reads only its own row
MinStableNum_OwnRow(m) == sst[m][m].stable_num

MinStableNum(m) == Min({sst[m][i].stable_num : i \in Members})

\* mutant: the entry with the greatest key
LeastUndelivered_Greatest(map) == Max(DOMAIN map)

\* map.begin()->first: the entry with the least key
LeastUndelivered(map) == Min(DOMAIN map)

RECURSIVE DeliveryLoop(_, _, _)
DeliveryLoop(m, st, min_stable_num) ==
    IF DOMAIN st.lsr = {} /\ DOMAIN st.lss = {} THEN st
    ELSE LET least_undelivered_rdmc_seq_num ==
                 IF DOMAIN st.lsr # {} THEN LeastUndelivered(st.lsr) ELSE LLongMax
             least_undelivered_sst_seq_num ==
                 IF DOMAIN st.lss # {} THEN LeastUndelivered(st.lss) ELSE LLongMax
         IN
         IF /\ least_undelivered_rdmc_seq_num < least_undelivered_sst_seq_num
            /\ least_undelivered_rdmc_seq_num <= min_stable_num
         THEN LET st1 == deliver_rdmc_message(st, st.lsr[least_undelivered_rdmc_seq_num])
              IN DeliveryLoop(m,
                    [st1 EXCEPT !.update_sst = TRUE,
                                !.delivered_num = least_undelivered_rdmc_seq_num,
                                !.lsr = MapErase(@, least_undelivered_rdmc_seq_num)],
                    min_stable_num)
         ELSE IF /\ least_undelivered_sst_seq_num < least_undelivered_rdmc_seq_num
                 /\ least_undelivered_sst_seq_num <= min_stable_num
         THEN LET st1 == deliver_sst_message(m, st, st.lss[least_undelivered_sst_seq_num])
              IN DeliveryLoop(m,
                    [st1 EXCEPT !.update_sst = TRUE,
                                !.delivered_num = least_undelivered_sst_seq_num,
                                !.lss = MapErase(@, least_undelivered_sst_seq_num)],
                    min_stable_num)
         ELSE st

\* write a delivery state back
Delivered(m, st) ==
    /\ locally_stable_rdmc_messages' = [locally_stable_rdmc_messages EXCEPT ![m] = st.lsr]
    /\ locally_stable_sst_messages' = [locally_stable_sst_messages EXCEPT ![m] = st.lss]
    /\ non_persistent_messages' = [non_persistent_messages EXCEPT ![m] = st.npm]
    /\ non_persistent_sst_messages' = [non_persistent_sst_messages EXCEPT ![m] = st.npsm]
    /\ free_message_buffers' = [free_message_buffers EXCEPT ![m] = st.free]
    /\ write_queue' = [write_queue EXCEPT ![m] = st.wq]
    /\ upcalls' = [upcalls EXCEPT ![m] = st.up]
    /\ sst' = [sst EXCEPT ![m][m].delivered_num = st.delivered_num]

delivery_trig(m) ==
    /\ subgroup_to_mode # "RAW"
    /\ Running(m)
    /\ ~thread_shutdown[m]
    /\ LET st == DeliveryLoop(m, DeliveryState(m), MinStableNum(m)) IN
       /\ st.update_sst
       /\ Delivered(m, st)
    /\ UNCHANGED <<cfgvars, envvars, callvars, received_intervals, future_message_indices, next_sends,
                   pending_sends, current_sends, current_receives, last_transfer_medium,
                   thrvars, queued_num, num_sent, rdmc_inflight, tx_log, persist_log, sent_log>>

\* ------------------------------------------------- deliver_messages_upto
RECURSIVE UptoLoop(_, _, _, _)
UptoLoop(m, st, seq_num, max_seq_num) ==
    IF seq_num > max_seq_num THEN st
    ELSE IF seq_num \in DOMAIN st.lsr
    THEN UptoLoop(m, [deliver_rdmc_message(st, st.lsr[seq_num]) EXCEPT
                            !.lsr = MapErase(@, seq_num)],
                  seq_num + 1, max_seq_num)
    ELSE IF seq_num \in DOMAIN st.lss
    THEN UptoLoop(m, [deliver_sst_message(m, st, st.lss[seq_num]) EXCEPT
                            !.lss = MapErase(@, seq_num)],
                  seq_num + 1, max_seq_num)
    ELSE UptoLoop(m, st, seq_num + 1, max_seq_num)

deliver_messages_upto(m, max_indices_for_senders) ==
    LET curr_seq_num == OwnRow(m).delivered_num
        max_seq_num == Max({curr_seq_num} \cup
                           {max_indices_for_senders[sender] * num_shard_senders + sender :
                                sender \in SenderRanks})
    IN Delivered(m, UptoLoop(m, DeliveryState(m), curr_seq_num, max_seq_num))

\* ragged-edge cleanup of a wedged group: the shard leader (lowest rank) takes,
\* per sender, the least num_received of the shard and publishes the vector;
\* the other members deliver up to the published vector
GlobalMinOf(m) ==
    [s \in SenderRanks |-> Min({sst[m][i].num_received[s] : i \in Members})]

ragged_edge_cleanup(m) ==
    /\ Running(m)
    /\ thread_shutdown[m]
    /\ ~cleaned[m]
    /\ IF m = Min(Members)
       THEN /\ global_min' = [ready |-> TRUE, min |-> GlobalMinOf(m)]
            /\ deliver_messages_upto(m, GlobalMinOf(m))
       ELSE /\ global_min.ready
            /\ UNCHANGED global_min
            /\ deliver_messages_upto(m, global_min.min)
    /\ cleaned' = [cleaned EXCEPT ![m] = TRUE]
    /\ UNCHANGED <<cfgvars, envvars, callvars, received_intervals, future_message_indices, next_sends,
                   pending_sends, current_sends, current_receives, last_transfer_medium,
                   thread_shutdown, sender_thread, aborted, queued_num, num_sent,
                   rdmc_inflight, tx_log, persist_log, sent_log>>

\* ----------------------------------------------------------------- wedge
\* lines 958-960: rdmc::destroy_group(i + rdmc_group_num_offset), i < num_members
\* rdmc_group_num_offset is by then the number of groups created
WedgeDestroys == [i \in 1 .. num_members |-> (i - 1) + Cardinality(rdmc_groups_created)]

\* the first call: thread_shutdown was false (lines 935-966)
wedge(m) ==
    /\ Running(m)
    /\ ~thread_shutdown[m]
    /\ thread_shutdown' = [thread_shutdown EXCEPT ![m] = TRUE]
    /\ destroyed_groups' = [destroyed_groups EXCEPT ![m] = @ \o WedgeDestroys]
    /\ sender_thread' = [sender_thread EXCEPT ![m] = "exited"]
    /\ UNCHANGED <<cfgvars, envvars, sst, msgvars, aborted, global_min, cleaned, netvars,
                   histvars, refused_calls, installed>>

\* ------------------------------------------------- calls that are refused
\* The early returns of the public operations.  The first refused call of a
\* run is recorded with the operation and the calling member.
RefusedCall(op, m) == [op |-> op, member |-> m]

\* mutant: the index is reserved before the pool is tested
get_sendbuffer_ptr_null_Reserved(m, payload_size, medium, pause, null_send) ==
    /\ Running(m)
    /\ shard_sender_index(m) >= 0
    /\ refused_calls = <<>>
    /\ ReturnsNull(m, payload_size, medium, null_send)
    /\ refused_calls' = <<RefusedCall("get_sendbuffer_ptr", m)>>
    /\ future_message_indices' = [future_message_indices EXCEPT ![m] = @ + pause + 1]
    /\ UNCHANGED <<cfgvars, envvars, sst, received_intervals, next_sends, pending_sends,
                   current_sends, current_receives, locally_stable_rdmc_messages,
                   locally_stable_sst_messages, non_persistent_messages,
                   non_persistent_sst_messages, free_message_buffers,
                   last_transfer_medium, thrvars, netvars, histvars, destroyed_groups,
                   installed>>

\* get_sendbuffer_ptr returning nullptr (lines 1086-1091, 1105-1122, 1126, 1150-1153)
get_sendbuffer_ptr_null(m, payload_size, medium, pause, null_send) ==
    /\ Running(m)
    /\ shard_sender_index(m) >= 0
    /\ refused_calls = <<>>
    /\ ReturnsNull(m, payload_size, medium, null_send)
    /\ refused_calls' = <<RefusedCall("get_sendbuffer_ptr", m)>>
    /\ UNCHANGED <<cfgvars, envvars, sst, msgvars, thrvars, netvars, histvars, destroyed_groups,
                   installed>>

\* send returning false (lines 1167-1169)
send_false(m) ==
    /\ Running(m)
    /\ thread_shutdown[m]
    /\ refused_calls = <<>>
    /\ refused_calls' = <<RefusedCall("send", m)>>
    /\ UNCHANGED <<cfgvars, envvars, sst, msgvars, thrvars, netvars, histvars, destroyed_groups,
                   installed>>

\* mutant: the flag is not tested and the body runs again
wedge_return_Rerun(m) ==
    /\ Running(m)
    /\ thread_shutdown[m]
    /\ refused_calls = <<>>
    /\ refused_calls' = <<RefusedCall("wedge", m)>>
    /\ destroyed_groups' = [destroyed_groups EXCEPT ![m] = @ \o WedgeDestroys]
    /\ UNCHANGED <<cfgvars, envvars, sst, msgvars, thrvars, netvars, histvars, installed>>

\* wedge on a group that is wedged already (lines 935-938)
wedge_return(m) ==
    /\ Running(m)
    /\ thread_shutdown[m]
    /\ refused_calls = <<>>
    /\ refused_calls' = <<RefusedCall("wedge", m)>>
    /\ UNCHANGED <<cfgvars, envvars, sst, msgvars, thrvars, netvars, histvars, destroyed_groups,
                   installed>>

\* the head of pending_sends after the sender thread moved it into
\* current_sends and before pop(): the entry holds no buffer any more
MovedFrom(m) ==
    /\ current_sends[m] # None
    /\ pending_sends[m] # <<>>
    /\ Head(pending_sends[m]).index = current_sends[m].index

\* ------------------------------------------- view-transition constructor
\* the keys of a std::map in iteration order
RECURSIVE SortedKeys(_)
SortedKeys(S) == IF S = {} THEN <<>> ELSE <<Min(S)>> \o SortedKeys(S \ {Min(S)})

MapValues(f) == LET keys == SortedKeys(DOMAIN f) IN [i \in 1 .. Len(keys) |-> f[keys[i]]]

\* convert_msg (lines 176-184) applied to a list of messages: each gets this
\* node as sender and the next index; the index counter then skips the pause
\* turns found in the message's header.  The header itself is not rewritten.
RECURSIVE ConvertMsgs(_, _, _, _)
ConvertMsgs(msgs, m, next_index, out) ==
    IF msgs = <<>> THEN [msgs |-> out, next_index |-> next_index]
    ELSE LET msg == Head(msgs) IN
         ConvertMsgs(Tail(msgs), m, next_index + 1 + msg.pause_sending_turns,
                     Append(out, [msg EXCEPT !.sender_id = m, !.index = next_index]))

\* convert_sst_msg (lines 188-196): the header is read in the slot the message borrows
RECURSIVE ConvertSstMsgs(_, _, _, _)
ConvertSstMsgs(msgs, m, next_index, out) ==
    IF msgs = <<>> THEN [msgs |-> out, next_index |-> next_index]
    ELSE LET msg == Head(msgs)
             h == sst[m][msg.sender_id].slots[msg.buf]
         IN ConvertSstMsgs(Tail(msgs), m, next_index + 1 + h.pause_sending_turns,
                           Append(out, [msg EXCEPT !.sender_id = m, !.index = next_index]))

OptionalMsg(o) == IF o # None THEN <<o>> ELSE <<>>

\* MulticastGroup(..., MulticastGroup&& old_group, ...), lines 154-299, for a
\* next view with the same shard: member m builds its next group from this
\* one after ragged-edge cleanup.  The fields of m then describe the new group.
view_transition(m) ==
    /\ Running(m)
    /\ ~installed[m]
    /\ thread_shutdown[m]
    /\ cleaned[m]
    /\ LET lsr == locally_stable_rdmc_messages[m]
           own == MapValues([k \in {x \in DOMAIN lsr : lsr[x].sender_id = m} |-> lsr[k]])
           others == {k \in DOMAIN lsr : lsr[k].sender_id # m}
           \* a message without a buffer is converted: its header is read
           \* through a null pointer
           null_header == (\E i \in 1 .. Len(own) : own[i].size = 0) \/ MovedFrom(m)
           \* lines 198-216: swap with the old free list, then top up
           swapped == Max({free_message_buffers[m], window_size * num_members})
           \* lines 218-238
           reclaimed == swapped + Cardinality(DOMAIN current_receives[m])
                            + Cardinality(others)
           c1 == ConvertMsgs(own, m, 0, <<>>)
           c2 == ConvertMsgs(OptionalMsg(current_sends[m]), m, c1.next_index, c1.msgs)
           c3 == ConvertMsgs(pending_sends[m], m, c2.next_index, c2.msgs)
           c4 == ConvertMsgs(OptionalMsg(next_sends[m]), m, c3.next_index, <<>>)
           npm_keys == SortedKeys(DOMAIN non_persistent_messages[m])
           c5 == ConvertMsgs(MapValues(non_persistent_messages[m]), m, c4.next_index, <<>>)
           npsm_keys == SortedKeys(DOMAIN non_persistent_sst_messages[m])
           c6 == ConvertSstMsgs(MapValues(non_persistent_sst_messages[m]), m,
                                c5.next_index, <<>>)
       IN
       IF null_header THEN Abort(m)
       ELSE
       /\ free_message_buffers' = [free_message_buffers EXCEPT ![m] = reclaimed]
       /\ current_receives' = [current_receives EXCEPT ![m] = EmptyMap]
       /\ locally_stable_rdmc_messages' = [locally_stable_rdmc_messages EXCEPT ![m] = EmptyMap]
       /\ locally_stable_sst_messages' = [locally_stable_sst_messages EXCEPT ![m] = EmptyMap]
       /\ pending_sends' = [pending_sends EXCEPT ![m] = c3.msgs]
       /\ current_sends' = [current_sends EXCEPT ![m] = None]
       /\ next_sends' = [next_sends EXCEPT ![m] =
               IF c4.msgs = <<>> THEN None ELSE c4.msgs[1]]
       /\ non_persistent_messages' = [non_persistent_messages EXCEPT ![m] =
               [k \in DOMAIN @ |-> c5.msgs[CHOOSE i \in 1 .. Len(npm_keys) : npm_keys[i] = k]]]
       /\ non_persistent_sst_messages' = [non_persistent_sst_messages EXCEPT ![m] =
               [k \in DOMAIN @ |-> c6.msgs[CHOOSE i \in 1 .. Len(npsm_keys) : npsm_keys[i] = k]]]
       /\ future_message_indices' = [future_message_indices EXCEPT ![m] = c6.next_index]
       /\ received_intervals' = [received_intervals EXCEPT ![m] = [r \in SenderRanks |-> {}]]
       /\ last_transfer_medium' = [last_transfer_medium EXCEPT ![m] = FALSE]
       /\ sst' = [sst EXCEPT ![m] = [j \in Members |-> InitRow]]
       /\ thread_shutdown' = [thread_shutdown EXCEPT ![m] = FALSE]
       /\ sender_thread' = [sender_thread EXCEPT ![m] = "running"]
       /\ queued_num' = [queued_num EXCEPT ![m] = 0]
       /\ num_sent' = [num_sent EXCEPT ![m] = 0]
       /\ rdmc_inflight' = [j \in Members |->
               [i \in Members |-> IF i = m THEN <<>> ELSE rdmc_inflight[j][i]]]
       /\ destroyed_groups' = [destroyed_groups EXCEPT ![m] = <<>>]
       /\ installed' = [installed EXCEPT ![m] = TRUE]
       /\ UNCHANGED <<cfgvars, envvars, aborted, global_min, cleaned, write_queue, histvars,
                      refused_calls>>

\* ------------------------------------------- make_file_written_callback
\* the position of m.sender in members
MemberRank(sender) == IF sender \in Members THEN sender ELSE num_members

PersistRecord(w, sequence_number, found) ==
    [sender |-> w.sender, index |-> w.index, sequence_number |-> sequence_number,
     found |-> found]

file_written_callback(m) ==
    /\ Running(m)
    /\ write_queue[m] # <<>>
    /\ LET w == Head(write_queue[m])
           sequence_number == w.index * num_members + MemberRank(w.sender)
       IN
       /\ sequence_number \in DOMAIN non_persistent_messages[m]
       /\ free_message_buffers' = [free_message_buffers EXCEPT ![m] = @ + 1]
       /\ non_persistent_messages' = [non_persistent_messages EXCEPT ![m] =
               MapErase(@, sequence_number)]
       /\ sst' = [sst EXCEPT ![m][m].persisted_num = sequence_number]
       /\ persist_log' = [persist_log EXCEPT ![m] =
               Append(@, PersistRecord(w, sequence_number, TRUE))]
    /\ write_queue' = [write_queue EXCEPT ![m] = Tail(@)]
    /\ UNCHANGED <<cfgvars, envvars, callvars, received_intervals, future_message_indices, next_sends,
                   pending_sends, current_sends, current_receives,
                   locally_stable_rdmc_messages, locally_stable_sst_messages,
                   non_persistent_sst_messages, last_transfer_medium, thrvars,
                   queued_num, num_sent, rdmc_inflight, upcalls, tx_log, sent_log>>

\* the entry is not in non_persistent_messages: the assert at line 318 fails
file_written_assert(m) ==
    /\ Running(m)
    /\ write_queue[m] # <<>>
    /\ LET w == Head(write_queue[m])
           sequence_number == w.index * num_members + MemberRank(w.sender)
       IN
       /\ sequence_number \notin DOMAIN non_persistent_messages[m]
       /\ persist_log' = [persist_log EXCEPT ![m] =
               Append(@, PersistRecord(w, sequence_number, FALSE))]
    /\ aborted' = [aborted EXCEPT ![m] = TRUE]
    /\ UNCHANGED <<cfgvars, envvars, callvars, sst, msgvars, thread_shutdown, sender_thread, global_min,
                   cleaned, netvars, upcalls, tx_log, sent_log>>

\* ------------------------------------------------------------- SST writes
\* The one-sided writes of member j reach member m in the order j issued them
\* (one reliable connection per pair): m's copy of row j becomes row j as it is
\* now.  A slot travels with the put of multicast send(), which bumps next_seq.
PutRow(j, m) ==
    [sst[j][j] EXCEPT !.slots =
        [s \in DOMAIN sst[j][j].slots |->
            IF sst[m][j].slots[s].next_seq # sst[j][j].slots[s].next_seq
            THEN sst[j][j].slots[s] ELSE sst[m][j].slots[s]]]

sst_put(j, m) ==
    /\ j # m
    /\ installed[j] = installed[m]
    /\ sst[m][j] # PutRow(j, m)
    /\ sst' = [sst EXCEPT ![m][j] = PutRow(j, m)]
    /\ UNCHANGED <<cfgvars, envvars, callvars, msgvars, thrvars, netvars, histvars>>

\* ------------------------------------------------------------------ Next
Next ==
    \/ \E m \in Members, p \in PayloadSizes, medium \in Mediums, pause \in PauseTurns,
          cooked \in CookedSends, null \in NullSends :
            /\ WithinBounds(pause) /\ NoOutstandingBuffer(m)
            /\ get_sendbuffer_ptr(m, p, medium, pause, cooked, null)
    \/ \E m \in Members : send(m)
    \/ \E m \in Members : send_loop(m)
    \/ \E m \in Members : rdmc_receive_handler_self(m)
    \/ \E m, j \in Members : rdmc_receive_destination(m, j)
    \/ \E m, j \in Members : rdmc_receive_handler(m, j)
    \/ \E m \in Members : receiver_trig(m)
    \/ \E m \in Members : stability_trig(m)
    \/ \E m \in Members : delivery_trig(m)
    \/ \E m \in Members : file_written_callback(m)
    \/ \E m \in Members : file_written_assert(m)
    \/ \E m \in Members : wedge(m)
    \/ \E m \in Members : ragged_edge_cleanup(m)
    \/ \E j, m \in Members : sst_put(j, m)

Spec == Init /\ [][Next]_vars

\* ------------------------------------------- executions with refused calls
\* A two-member view with persistence in which the application also makes the
\* calls that return early.
InitCalls == InitViews({v \in Views : v.n > 1 /\ v.persist})

NextCalls ==
    \/ Next
    \/ \E m \in Members, p \in PayloadSizes, medium \in Mediums, pause \in PauseTurns,
          null \in NullSends : get_sendbuffer_ptr_null(m, p, medium, pause, null)
    \/ \E m \in Members : send_false(m)
    \/ \E m \in Members : wedge_return(m)

SpecCalls == InitCalls /\ [][NextCalls]_vars

\* ------------------------------------------ executions with a view change
\* The two-member view with persistence, followed at each member until it has
\* built the group of the next view.
NextHandoff ==
    \/ Next
    \/ \E m \in Members : view_transition(m)

SpecHandoff == InitCalls /\ [][NextHandoff]_vars

\* --------------------------------------- executions into the next view
\* Two-member views in which every member builds the group of the next view and
\* the new groups run.  The application sends in the first view only, so what
\* travels in the next view is what its author re-sends.
InitResend == InitViews({v \in Views : v.n > 1 /\ ~v.persist})

NextResend ==
    \/ \E m \in Members, p \in PayloadSizes, medium \in Mediums :
            /\ WithinBounds(0) /\ NoOutstandingBuffer(m)
            /\ ~installed[m]
            /\ get_sendbuffer_ptr(m, p, medium, 0, FALSE, FALSE)
    \/ \E m \in Members : send(m)
    \/ \E m \in Members : send_loop(m)
    \/ \E m \in Members : rdmc_receive_handler_self(m)
    \/ \E m, j \in Members : rdmc_receive_destination(m, j)
    \/ \E m, j \in Members : rdmc_receive_handler(m, j)
    \/ \E m \in Members : receiver_trig(m)
    \/ \E m \in Members : stability_trig(m)
    \/ \E m \in Members : delivery_trig(m)
    \/ \E m \in Members : wedge(m)
    \/ \E m \in Members : ragged_edge_cleanup(m)
    \/ \E m \in Members : view_transition(m)
    \/ \E j, m \in Members : sst_put(j, m)

SpecResend == InitResend /\ [][NextResend]_vars

\* ------------------------------------------------ executions with pauses
\* Two members, both senders, Ordered mode.  The member with sender rank 0
\* sends one message and pauses two turns with it; the other member sends
\* messages or null sends without pause.  Nothing fails.
InitTurns ==
    InitViews({v \in Views : /\ v.mode = "ORDERED" /\ v.n = 2 /\ ~v.persist
                             /\ \A m \in 0 .. v.n - 1 : v.senders[m] = 1})

UserTurns ==
    \/ \E p \in PayloadSizes, medium \in Mediums :
            /\ future_message_indices[shard_ranks_by_sender_rank(0)] = 0
            /\ NoOutstandingBuffer(shard_ranks_by_sender_rank(0))
            /\ get_sendbuffer_ptr(shard_ranks_by_sender_rank(0), p, medium, 2, FALSE, FALSE)
    \/ \E p \in PayloadSizes, medium \in Mediums, null \in BOOLEAN :
            /\ future_message_indices[shard_ranks_by_sender_rank(1)] < MaxIndex
            /\ NoOutstandingBuffer(shard_ranks_by_sender_rank(1))
            /\ get_sendbuffer_ptr(shard_ranks_by_sender_rank(1), p, medium, 0, FALSE, null)
    \/ \E m \in Members : send(m)

\* ------------------------------------------------- failure-free executions
\* A view in which every member is a sender and nothing fails: no wedge, no
\* view change.  What runs by itself (sender thread, transport completions,
\* the predicate thread's triggers, the writer's callbacks, SST pushes) is
\* scheduled fairly; the calls of the application are not.
InitLive ==
    InitViews({v \in Views : v.mode = "ORDERED" /\ \A m \in 0 .. v.n - 1 : v.senders[m] = 1})

UserNext ==
    \/ \E m \in Members, p \in PayloadSizes, medium \in Mediums, pause \in PauseTurns,
          cooked \in CookedSends, null \in NullSends :
            /\ WithinBounds(pause) /\ NoOutstandingBuffer(m)
            /\ get_sendbuffer_ptr(m, p, medium, pause, cooked, null)
    \/ \E m \in Members : send(m)

SystemNext ==
    \/ \E m \in Members : send_loop(m)
    \/ \E m \in Members : rdmc_receive_handler_self(m)
    \/ \E m, j \in Members : rdmc_receive_destination(m, j)
    \/ \E m, j \in Members : rdmc_receive_handler(m, j)
    \/ \E m \in Members : receiver_trig(m)
    \/ \E m \in Members : stability_trig(m)
    \/ \E m \in Members : delivery_trig(m)
    \/ \E j, m \in Members : sst_put(j, m)

NextLive == UserNext \/ SystemNext

NextTurns == UserTurns \/ SystemNext

SpecTurns == InitTurns /\ [][NextTurns]_vars

\* ------------------------------------------- Raw mode, window of two
\* Two members, one sender, Raw mode, window_size 2: the sender may have a
\* slot message and a bulk message in flight together, so a later index can
\* arrive first.  The sender sends at most MaxIndex messages, without pause.
InitRaw == InitViews({View(2, (0 :> 1 @@ 1 :> 0), 2, FALSE, "RAW")})

UserRaw ==
    \/ \E m \in Members, p \in PayloadSizes, medium \in Mediums :
            /\ future_message_indices[m] < MaxIndex
            /\ NoOutstandingBuffer(m)
            /\ get_sendbuffer_ptr(m, p, medium, 0, FALSE, FALSE)
    \/ \E m \in Members : send(m)

SystemRaw ==
    \/ \E m \in Members : send_loop(m)
    \/ \E m \in Members : rdmc_receive_handler_self(m)
    \/ \E m, j \in Members : rdmc_receive_destination(m, j)
    \/ \E m, j \in Members : rdmc_receive_handler(m, j)
    \/ \E m \in Members : receiver_trig(m)
    \/ \E j, m \in Members : sst_put(j, m)

NextRaw == UserRaw \/ SystemRaw

SpecRaw == InitRaw /\ [][NextRaw]_vars

\* ------------------------------------- executions with any order of calls
\* The same view with an application that also asks for a buffer while it
\* still holds one it has not passed to send().
NextAny ==
    \/ NextRaw
    \/ \E m \in Members, p \in PayloadSizes, medium \in Mediums :
            /\ future_message_indices[m] < MaxIndex
            /\ ~NoOutstandingBuffer(m)
            /\ get_sendbuffer_ptr(m, p, medium, 0, FALSE, FALSE)

SpecAny == InitRaw /\ [][NextAny]_vars

\* member ranks of any view
AllMembers == UNION {0 .. v.n - 1 : v \in Views}

Fairness ==
    /\ \A m \in AllMembers : WF_vars(m \in Members /\ send_loop(m))
    /\ \A m \in AllMembers : WF_vars(m \in Members /\ rdmc_receive_handler_self(m))
    /\ \A m, j \in AllMembers :
        WF_vars(m \in Members /\ j \in Members /\ rdmc_receive_destination(m, j))
    /\ \A m, j \in AllMembers :
        WF_vars(m \in Members /\ j \in Members /\ rdmc_receive_handler(m, j))
    /\ \A m \in AllMembers : WF_vars(m \in Members /\ receiver_trig(m))
    /\ \A m \in AllMembers : WF_vars(m \in Members /\ stability_trig(m))
    /\ \A m \in AllMembers : WF_vars(m \in Members /\ delivery_trig(m))
    /\ \A j, m \in AllMembers : WF_vars(j \in Members /\ m \in Members /\ sst_put(j, m))

SpecLive == InitLive /\ [][NextLive]_vars /\ Fairness

\* ------------------------------------------------- create_state_file
\* One run of the executable (create_state_file.cpp, main).  Its inputs are
\* the arguments after the program name, whether standard input holds the
\* text of a View, and the paths at which a file can be created.
ToolPaths == {"view", "ro/view"}

\* argc counts the program name
argc == Len(tool.argv) + 1

\* an exception leaves main: std::terminate, the process ends on SIGABRT
\* (128 + 6 as the shell reports it)
Terminate == [tool EXCEPT !.pc = "done", !.signal = "SIGABRT", !.exit = 134]

\* derecho::parse_view(std::cin): returns a View; on text that is not a View
\* it returns some View or throws
parse_view_outcomes ==
    IF tool.stdin_ok THEN {[tool EXCEPT !.pc = "parsed", !.parsed = TRUE]}
    ELSE {[tool EXCEPT !.pc = "parsed", !.parsed = TRUE], Terminate}

\* derecho::persist_object(view, view_file_name): writes the file; where the
\* file cannot be created it returns without one or throws
persist_object_outcomes ==
    LET view_file_name == tool.argv[1] IN
    IF view_file_name \in tool.writable
    THEN {[tool EXCEPT !.pc = "persisted", !.files = @ \cup {view_file_name}]}
    ELSE {[tool EXCEPT !.pc = "persisted"], Terminate}

\* lines 16-19
main_usage ==
    /\ tool.pc = "main"
    /\ argc < 2
    /\ tool' = [tool EXCEPT !.pc = "done", !.exit = 1,
                            !.stdout = Append(@, "Usage: create_state_file <filename>")]
    /\ UNCHANGED <<groupvars, loop, poll, handoff, gmsSST, last_suspected, curr_view, crashed>>

\* lines 21-22
main_parse_view ==
    /\ tool.pc = "main"
    /\ ~(argc < 2)
    /\ tool' \in parse_view_outcomes
    /\ UNCHANGED <<groupvars, loop, poll, handoff, gmsSST, last_suspected, curr_view, crashed>>

\* line 23
main_persist_object ==
    /\ tool.pc = "parsed"
    /\ tool' \in persist_object_outcomes
    /\ UNCHANGED <<groupvars, loop, poll, handoff, gmsSST, last_suspected, curr_view, crashed>>

\* line 24
main_return ==
    /\ tool.pc = "persisted"
    /\ tool' = [tool EXCEPT !.pc = "done", !.exit = 0]
    /\ UNCHANGED <<groupvars, loop, poll, handoff, gmsSST, last_suspected, curr_view, crashed>>

ToolViews == {v \in Views : v.n = 1}

InitTool ==
    /\ InitGroup(ToolViews) /\ handoff = HandoffIdle
    /\ tool \in
        {[ToolIdle EXCEPT !.pc = "main", !.argv = argv, !.stdin_ok = ok, !.writable = w] :
            argv \in {<<>>} \cup {<<a>> : a \in ToolPaths} \cup {<<a, b>> : a, b \in ToolPaths},
            ok \in BOOLEAN, w \in SUBSET ToolPaths}
    /\ GmsIdle /\ ThreadsIdle

NextTool ==
    \/ main_usage
    \/ main_parse_view
    \/ main_persist_object
    \/ main_return

SpecTool == InitTool /\ [][NextTool]_vars

\* ------------------------------ view transition with several subgroups
\* The loop of the view-transition constructor that moves the not yet
\* persisted messages (lines 249-276), for a node that belongs to several
\* subgroups.  old_group.non_persistent_messages maps a subgroup to its
\* messages by sequence number; operator[] on it creates a missing entry.
SubgroupIds == {0, 1}

QueuedKeys == {0, 1}

MapGet(f, k) == IF k \in DOMAIN f THEN f[k] ELSE EmptyMap

\* the queues a node can hold at the view change: per subgroup any of its
\* delivered messages may still wait for the writer
HandoffInputs ==
    {[HandoffIdle EXCEPT
        !.pc = "loop", !.todo = gs,
        !.given_npm = [g \in gs |-> [k \in bulk[g] |->
                            RDMCMessage(0, k, sizeof_header + 1, k, 0, FALSE)]],
        !.given_npsm = [g \in gs |-> [k \in slot[g] |->
                            SSTMessage(0, k, sizeof_header + 1, 0)]],
        !.old_npm = [g \in gs |-> [k \in bulk[g] |->
                            RDMCMessage(0, k, sizeof_header + 1, k, 0, FALSE)]],
        !.old_npsm = [g \in gs |-> [k \in slot[g] |->
                            SSTMessage(0, k, sizeof_header + 1, 0)]],
        !.new_npm = [g \in gs |-> EmptyMap],
        !.new_npsm = [g \in gs |-> EmptyMap],
        !.future_message_indices = [g \in gs |-> 0]] :
     gs \in (SUBSET SubgroupIds) \ {{}},
     bulk \in [SubgroupIds -> SUBSET QueuedKeys],
     slot \in [SubgroupIds -> SUBSET QueuedKeys]}

\* the converted messages under the keys they had
Reemplace(new_map, old_map, converted) ==
    LET keys == SortedKeys(DOMAIN old_map) IN
    [k \in DOMAIN new_map \cup DOMAIN old_map |->
        IF k \in DOMAIN new_map THEN new_map[k]
        ELSE converted[CHOOSE i \in 1 .. Len(keys) : keys[i] = k]]

\* one iteration of the loop at lines 249-276, for the next subgroup of
\* subgroup_to_shard_and_rank: lines 266-275
move_non_persistent ==
    /\ handoff.pc = "loop"
    /\ handoff.todo # {}
    /\ LET subgroup_num == Min(handoff.todo)
           old_bulk == MapGet(handoff.old_npm, subgroup_num)
           old_slot == MapGet(handoff.old_npsm, subgroup_num)
           c1 == ConvertMsgs(MapValues(old_bulk), handoff.me,
                             handoff.future_message_indices[subgroup_num], <<>>)
           c2 == ConvertSstMsgs(MapValues(old_slot), handoff.me, c1.next_index, <<>>)
       IN handoff' = [handoff EXCEPT
            !.new_npm[subgroup_num] = Reemplace(@, old_bulk, c1.msgs),
            !.new_npsm[subgroup_num] = Reemplace(@, old_slot, c2.msgs),
            \* old_group.non_persistent_messages.clear(), line 270, and
            \* old_group.non_persistent_sst_messages.clear(), line 275
            !.old_npm = <<>>,
            !.old_npsm = <<>>,
            !.future_message_indices[subgroup_num] = c2.next_index,
            !.todo = @ \ {subgroup_num},
            !.pc = IF handoff.todo = {subgroup_num} THEN "done" ELSE "loop"]
    /\ UNCHANGED <<groupvars, loop, poll, tool, gmsSST, last_suspected, curr_view, crashed>>

InitMove ==
    /\ InitGroup(ToolViews) /\ tool = ToolIdle /\ handoff \in HandoffInputs
    /\ GmsIdle /\ ThreadsIdle

NextMove == move_non_persistent

SpecMove == InitMove /\ [][NextMove]_vars

\* ------------------------------------------------ view-change protocol
\* The membership protocol of ViewManager, of which view_manager.h declares the
\* predicates and helpers.  Counters are cumulative over the views; a node's
\* own row is gmsSST[m][m], and what it reads of the others are its copies.

OwnGms(m) == gmsSST[m][m]

SetOwnGms(m, row) == [gmsSST EXCEPT ![m][m] = row]

\* the leader is the lowest-indexed member whose failed flag is not set
rank_of_leader(view) == Min(view.members \ view.failed)

\* suspected_not_equal: some row read by m carries a suspicion m has not acted on
AllSuspected(m) == UNION {gmsSST[m][j].suspected : j \in curr_view[m].members}

\* min_acked taking the greatest acknowledgement instead of the least
min_acked_Greatest(table, view) ==
    Max({table[j].nAcked : j \in view.members \ view.failed})

\* min_acked: the least nAcked over the members not marked failed
min_acked(table, view) ==
    Min({table[j].nAcked : j \in view.members \ view.failed})

\* a node stops; at least one node keeps running
crash(j) ==
    /\ j \notin crashed
    /\ crashed \cup {j} # GmsNodes
    /\ crashed' = crashed \cup {j}
    /\ UNCHANGED <<groupvars, loop, poll, tool, handoff, gmsSST, last_suspected, curr_view>>

\* report_failure: a heartbeat to `who` completed with a failure at m (or the
\* application reported it); the suspected bit is set and never cleared.  A
\* completion failure is proof of failure, so only stopped nodes are reported.
report_failure(m, who) ==
    /\ m \notin crashed
    /\ who \in crashed
    /\ who \in curr_view[m].members
    /\ who \notin OwnGms(m).suspected
    /\ gmsSST' = SetOwnGms(m, [OwnGms(m) EXCEPT !.suspected = @ \cup {who}])
    /\ UNCHANGED <<groupvars, loop, poll, tool, handoff, last_suspected, curr_view, crashed>>

\* suspected_changed: copy the suspicions, mark the newly suspected peers failed
\* and, at the leader, append them to changes.  The leader acknowledges its own
\* proposal (all members ack).
suspected_changed(m) ==
    /\ m \notin crashed
    /\ AllSuspected(m) \ last_suspected[m] # {}
    /\ LET all == AllSuspected(m) \cup last_suspected[m]
           new == SortedKeys(AllSuspected(m) \ last_suspected[m])
           view == [curr_view[m] EXCEPT !.failed = @ \cup (all \cap curr_view[m].members)]
           own == OwnGms(m)
           add == IF rank_of_leader(view) = m
                  THEN SelectSeq(new, LAMBDA q : /\ q \in view.members
                                              \* changes_contains
                                              /\ \A i \in 1 .. Len(own.changes) :
                                                     own.changes[i] # q)
                  ELSE <<>>
           proposed == [own EXCEPT !.changes = @ \o add, !.nChanges = @ + Len(add)]
       IN  /\ gmsSST' = SetOwnGms(m, [proposed EXCEPT
                            !.suspected = all,
                            !.nAcked = IF add # <<>> THEN proposed.nChanges ELSE @])
           /\ last_suspected' = [last_suspected EXCEPT ![m] = all]
           /\ curr_view' = [curr_view EXCEPT ![m] = view]
    /\ UNCHANGED <<groupvars, loop, poll, tool, handoff, crashed>>

\* leader_proposed copying the proposal without acknowledging it
leader_proposed_Silent(m) ==
    /\ m \notin crashed
    /\ LET leader == rank_of_leader(curr_view[m])
           theirs == gmsSST[m][leader]
       IN  /\ leader # m
           /\ theirs.nChanges > OwnGms(m).nChanges
           /\ gmsSST' = SetOwnGms(m, [OwnGms(m) EXCEPT !.changes = theirs.changes,
                                                        !.nChanges = theirs.nChanges])
    /\ UNCHANGED <<groupvars, loop, poll, tool, handoff, last_suspected, curr_view, crashed>>

\* leader_proposed (followers): the leader's nChanges advanced; copy and ack
leader_proposed(m) ==
    /\ m \notin crashed
    /\ LET leader == rank_of_leader(curr_view[m])
           theirs == gmsSST[m][leader]
       IN  /\ leader # m
           /\ theirs.nChanges > OwnGms(m).nAcked
           /\ gmsSST' = SetOwnGms(m, [OwnGms(m) EXCEPT !.changes = theirs.changes,
                                                        !.nChanges = theirs.nChanges,
                                                        !.nAcked = theirs.nChanges])
    /\ UNCHANGED <<groupvars, loop, poll, tool, handoff, last_suspected, curr_view, crashed>>

\* change_commit_ready (leader only): min-nAcked has reached nChanges
change_commit_ready(m) ==
    /\ m \notin crashed
    /\ rank_of_leader(curr_view[m]) = m
    /\ OwnGms(m).nCommitted < OwnGms(m).nChanges
    /\ min_acked(gmsSST[m], curr_view[m]) >= OwnGms(m).nChanges
    /\ gmsSST' = SetOwnGms(m, [OwnGms(m) EXCEPT !.nCommitted = OwnGms(m).nChanges])
    /\ UNCHANGED <<groupvars, loop, poll, tool, handoff, last_suspected, curr_view, crashed>>

\* leader_committed: the leader's nCommitted exceeds this node's nInstalled; the
\* node builds the next view from the committed changes, installs it and sets
\* nInstalled = nCommitted
leader_committed(m) ==
    /\ m \notin crashed
    /\ LET leader == rank_of_leader(curr_view[m])
           committed == gmsSST[m][leader].nCommitted
           own == OwnGms(m)
           removed == {own.changes[i] : i \in (own.nInstalled + 1) .. committed}
       IN  /\ committed > own.nInstalled
           /\ curr_view' = [curr_view EXCEPT ![m] =
                               [vid |-> @.vid + 1,
                                members |-> @.members \ removed,
                                failed |-> @.failed \ removed]]
           /\ gmsSST' = SetOwnGms(m, [own EXCEPT !.nCommitted = committed,
                                                  !.nInstalled = committed])
    /\ UNCHANGED <<groupvars, loop, poll, tool, handoff, last_suspected, crashed>>

\* a put of row j arrives at m
gms_put(j, m) ==
    /\ m \notin crashed
    /\ j # m
    /\ gmsSST[m][j] # gmsSST[j][j]
    /\ gmsSST' = [gmsSST EXCEPT ![m][j] = gmsSST[j][j]]
    /\ UNCHANGED <<groupvars, loop, poll, tool, handoff, last_suspected, curr_view, crashed>>

NextGms ==
    \/ \E j \in GmsNodes : crash(j)
    \/ \E m, who \in GmsNodes : report_failure(m, who)
    \/ \E m \in GmsNodes : suspected_changed(m)
    \/ \E m \in GmsNodes : leader_proposed(m)
    \/ \E m \in GmsNodes : change_commit_ready(m)
    \/ \E m \in GmsNodes : leader_committed(m)
    \/ \E j, m \in GmsNodes : gms_put(j, m)

\* The predicates are recurrent and evaluated by the SST's predicate thread for
\* as long as the node runs, the heartbeat thread probes every peer every
\* timeout_ms, and a put of a running node reaches every running node.
FairnessGms ==
    /\ \A m, who \in GmsNodes : WF_vars(report_failure(m, who))
    /\ \A m \in GmsNodes : WF_vars(suspected_changed(m))
    /\ \A m \in GmsNodes : WF_vars(leader_proposed(m))
    /\ \A m \in GmsNodes : WF_vars(change_commit_ready(m))
    /\ \A m \in GmsNodes : WF_vars(leader_committed(m))
    /\ \A j, m \in GmsNodes : WF_vars(j \notin crashed /\ gms_put(j, m))

SpecGms == InitViews(ToolViews) /\ [][NextGms]_vars

SpecGmsFair == SpecGms /\ FairnessGms

\* ------------------------------------- the sender thread, step by step
\* send_loop (lines 968-1052) with total_num_subgroups = 3 and wedge() (lines
\* 934-966) as separate steps.  Whether the head of a subgroup's pending_sends
\* passes should_send_to_subgroup is loop.admissible; it becomes true by a
\* send() of the application or a change in the SST and stays true until the
\* head is sent.  loop.waited[g] counts the sends made since g turned
\* admissible.

\* should_send scanning from subgroup 0 every time
should_send_Fixed(subgroup_to_send, admissible) ==
    LET n == Cardinality(LoopSubgroups)
        hits == {i \in 1 .. n : admissible[i % n]}
    IN IF hits = {} THEN [found |-> FALSE, subgroup_to_send |-> subgroup_to_send]
       ELSE [found |-> TRUE, subgroup_to_send |-> Min(hits) % n]

\* should_send (lines 1018-1027): scan subgroup_to_send + 1, + 2, ... and keep
\* the first subgroup that may send
should_send(subgroup_to_send, admissible) ==
    LET n == Cardinality(LoopSubgroups)
        hits == {i \in 1 .. n : admissible[(subgroup_to_send + i) % n]}
    IN IF hits = {} THEN [found |-> FALSE, subgroup_to_send |-> subgroup_to_send]
       ELSE [found |-> TRUE, subgroup_to_send |-> (subgroup_to_send + Min(hits)) % n]

\* one step of the sender thread; it holds msg_state_mtx except while it waits
send_loop_step ==
    /\ \/ /\ loop.pc = "while"                      \* line 1031
          /\ loop' = [loop EXCEPT !.pc = IF loop.thread_shutdown THEN "exited"
                                         ELSE "should_wake"]
       \/ /\ loop.pc = "should_wake"                \* line 1028, inside wait()
          /\ LET scan == should_send(loop.subgroup_to_send, loop.admissible) IN
             loop' = IF loop.thread_shutdown THEN [loop EXCEPT !.pc = "woken"]
                     ELSE IF scan.found
                          THEN [loop EXCEPT !.pc = "woken",
                                            !.subgroup_to_send = scan.subgroup_to_send]
                          ELSE [loop EXCEPT !.pc = "block"]
       \/ /\ loop.pc = "block"                      \* line 1032: wait() blocks
          /\ loop' = [loop EXCEPT !.pc = "waiting"]
       \/ /\ loop.pc = "woken"                      \* lines 1034-1046
          /\ IF loop.thread_shutdown THEN loop' = [loop EXCEPT !.pc = "while"]
             ELSE \E next_admissible, sent \in BOOLEAN :
                    loop' = [loop EXCEPT
                        \* rdmc::send returned false: the exception ends the loop
                        !.pc = IF sent THEN "while" ELSE "exited",
                        !.admissible[loop.subgroup_to_send] = next_admissible /\ sent,
                        !.waited = [g \in LoopSubgroups |->
                            IF g = loop.subgroup_to_send \/ ~loop.admissible[g] THEN 0
                            ELSE Min({@[g] + 1, Cardinality(LoopSubgroups) + 1})]]
    /\ UNCHANGED <<groupvars, tool, handoff, gmsSST, last_suspected, curr_view, crashed, poll>>

\* one step of wedge(): the exchange on the atomic flag, notify_all after the
\* predicates and groups are removed, the join
wedge_step ==
    /\ \/ /\ loop.wedge = "none"                    \* line 935
          /\ loop' = [loop EXCEPT !.thread_shutdown = TRUE, !.wedge = "flagged"]
       \/ /\ loop.wedge = "flagged"                 \* lines 940-962
          /\ loop' = [loop EXCEPT !.wedge = "join",
                                  !.pc = IF @ = "waiting" THEN "should_wake" ELSE @]
       \/ /\ loop.wedge = "join"                    \* lines 963-965
          /\ loop.pc = "exited"
          /\ loop' = [loop EXCEPT !.wedge = "returned"]
    /\ UNCHANGED <<groupvars, tool, handoff, gmsSST, last_suspected, curr_view, crashed, poll>>

\* the head of subgroup g becomes sendable and the sender is notified (send(),
\* line 1175; sender_trig, lines 886 and 908; the receive handler, line 449)
sender_trig(g) ==
    /\ loop.wedge = "none"
    /\ ~loop.admissible[g]
    /\ loop' = [loop EXCEPT !.admissible[g] = TRUE,
                            !.pc = IF @ = "waiting" THEN "should_wake" ELSE @]
    /\ UNCHANGED <<groupvars, tool, handoff, gmsSST, last_suspected, curr_view, crashed, poll>>

NextLoop ==
    \/ send_loop_step
    \/ wedge_step
    \/ \E g \in LoopSubgroups : sender_trig(g)

\* both threads are scheduled; nothing obliges the application or the network
\* to produce another notification
FairnessLoop == WF_vars(send_loop_step) /\ WF_vars(wedge_step)

SpecLoop == InitViews(ToolViews) /\ [][NextLoop]_vars /\ FairnessLoop

\* ------------------------------------------- the completion-polling thread
\* poll.cq is the completion queue, poll.taken the completions ibv_poll_cq
\* handed out, poll.entries what insert_completion_entry was called with.
\* wc and poll_result are locals of verbs_poll_completion without initialiser:
\* wc = None and polled = FALSE mean "never written".  shutdown is a plain bool
\* written by one thread and read by another with no synchronisation, so a read
\* after the write may still yield the old value.

\* a work completion as far as verbs_poll_completion looks at it
WorkCompletions == [wr_id : 0 .. 1, qp_num : {0}, status : {"success", "error"}]

polling_loop_step ==
    /\ \/ \* resources_create starts the thread (lines 554-555)
          /\ poll.pc = "none"
          /\ poll' = [poll EXCEPT !.pc = "while"]
       \/ \* while(!shutdown), line 429; verbs_poll_completion is entered
          /\ poll.pc = "while"
          /\ \E seen \in (IF poll.shutdown THEN BOOLEAN ELSE {FALSE}) :
                poll' = [poll EXCEPT !.pc = IF seen THEN "ended" ELSE "poll",
                                     !.wc = None, !.polled = FALSE]
       \/ \* while(!shutdown) and one round of ibv_poll_cq, lines 449-460
          /\ poll.pc = "poll"
          /\ \E seen \in (IF poll.shutdown THEN BOOLEAN ELSE {FALSE}) :
                IF seen THEN poll' = [poll EXCEPT !.pc = "polled"]
                ELSE \/ /\ poll.cq # <<>>
                        /\ poll' = [poll EXCEPT !.pc = "polled", !.polled = TRUE,
                                                !.poll_result = 1, !.wc = Head(poll.cq),
                                                !.cq = Tail(@),
                                                !.taken = Append(@, Head(poll.cq))]
                     \/ /\ poll.cq = <<>>
                        /\ poll' = [poll EXCEPT !.polled = TRUE, !.poll_result = 0]
                     \/ \* ibv_poll_cq reports an error
                        poll' = [poll EXCEPT !.pc = "polled", !.polled = TRUE,
                                             !.poll_result = -1]
       \/ \* lines 463-475, then insert_completion_entry, line 431
          /\ poll.pc = "polled"
          /\ Len(poll.entries) < MaxCompletions
          /\ \E r \in (IF poll.polled THEN {poll.poll_result} ELSE {-1, 0, 1}) :
                IF r < 0 THEN poll' = [poll EXCEPT !.pc = "exit"]
                ELSE \E wc \in (IF poll.wc # None THEN {poll.wc} ELSE WorkCompletions) :
                        poll' = [poll EXCEPT !.pc = "while",
                                             !.entries = Append(@,
                                                [wr_id |-> wc.wr_id, qp_num |-> wc.qp_num,
                                                 result |-> IF wc.status # "success"
                                                            THEN -1 ELSE 1])]
    /\ UNCHANGED <<groupvars, tool, handoff, gmsSST, last_suspected, curr_view, crashed, loop>>

\* the network completes a posted request
cq_completion ==
    /\ poll.pc # "none"
    /\ Len(poll.cq) + Len(poll.taken) < MaxCompletions
    /\ \E wc \in WorkCompletions : poll' = [poll EXCEPT !.cq = Append(@, wc)]
    /\ UNCHANGED <<groupvars, tool, handoff, gmsSST, last_suspected, curr_view, crashed, loop>>

\* lines 585-587
shutdown_polling_thread ==
    /\ ~poll.shutdown
    /\ poll' = [poll EXCEPT !.shutdown = TRUE]
    /\ UNCHANGED <<groupvars, tool, handoff, gmsSST, last_suspected, curr_view, crashed, loop>>

NextPoll == polling_loop_step \/ cq_completion \/ shutdown_polling_thread

SpecPoll == InitViews(ToolViews) /\ [][NextPoll]_vars

\* =================================================================== claims
IsPrefix(s, t) == Len(s) <= Len(t) /\ \A i \in 1 .. Len(s) : s[i] = t[i]

\* the (sender, index) pairs member m has reported to the upcall
Reported(m) == [i \in 1 .. Len(upcalls[m]) |-> <<upcalls[m][i].sender, upcalls[m][i].index>>]

\* the sequence number of an upcall
UpcallSeq(u) == u.index * num_shard_senders + shard_sender_index(u.sender)

InView(m) == ~cleaned[m]

\* C1: within one view of an Ordered subgroup (before the ragged-edge cleanup
\* of the view change), the (sender, index) sequences two shard members have
\* reported are prefixes of one another, and they are the same sequence when
\* both members have delivered up to the same sequence number.
Thm_C1 ==
    subgroup_to_mode = "ORDERED" =>
        \A m, n \in Members :
            (InView(m) /\ InView(n)) =>
                /\ IsPrefix(Reported(m), Reported(n)) \/ IsPrefix(Reported(n), Reported(m))
                /\ OwnRow(m).delivered_num = OwnRow(n).delivered_num
                        => Reported(m) = Reported(n)

Wit_C1 ==
    /\ subgroup_to_mode = "ORDERED"
    /\ \E m, n \in Members :
        /\ m # n /\ InView(m) /\ InView(n)
        /\ Len(upcalls[m]) >= 1
        /\ Len(upcalls[n]) = Len(upcalls[m]) + 1
        /\ upcalls[n][1].sender # upcalls[n][2].sender

\* C2 as stated: in every subgroup, Raw ones included, the upcalls of a member
\* carry strictly increasing sequence numbers.
Orig_C2 ==
    \A m \in Members : \A i, j \in 1 .. Len(upcalls[m]) :
        i < j => UpcallSeq(upcalls[m][i]) < UpcallSeq(upcalls[m][j])

\* C2 amended: in every Ordered subgroup the upcalls of a member carry strictly
\* increasing sequence numbers, over bulk and slot receipts, delivery-predicate
\* firings and the ragged-edge deliver_messages_upto.
Thm_C2 == subgroup_to_mode = "ORDERED" => Orig_C2

Wit_C2 ==
    /\ subgroup_to_mode = "ORDERED"
    /\ \E m \in Members :
        /\ cleaned[m]
        /\ Len(upcalls[m]) >= 2
        /\ OwnRow(m).delivered_num < UpcallSeq(upcalls[m][Len(upcalls[m])])
        /\ OwnRow(m).delivered_num >= 0

\* C3: in an Ordered subgroup delivered_num of a member never exceeds the
\* stable_num of any shard member; every sequence number up to delivered_num
\* has been received by every shard member; and what the delivery predicate
\* has reported to the upcall lies at or below delivered_num.
ReceivedAt(j, seq) ==
    (seq \div num_shard_senders) <= OwnRow(j).num_received[seq % num_shard_senders]

Thm_C3 ==
    subgroup_to_mode = "ORDERED" =>
        \A m, j \in Members :
            /\ OwnRow(m).delivered_num <= OwnRow(j).stable_num
            /\ \A seq \in 0 .. OwnRow(m).delivered_num : ReceivedAt(j, seq)
            /\ InView(m) => \A k \in 1 .. Len(upcalls[m]) :
                    UpcallSeq(upcalls[m][k]) <= OwnRow(m).delivered_num

Wit_C3 ==
    /\ subgroup_to_mode = "ORDERED"
    /\ \E m, j \in Members :
        /\ m # j
        /\ OwnRow(m).delivered_num >= 1
        /\ OwnRow(j).delivered_num < OwnRow(m).delivered_num

\* C4 as stated: persisted_num <= delivered_num <= stable_num <= seq_num in
\* every member's own row.
Orig_C4 ==
    \A m \in Members :
        /\ OwnRow(m).persisted_num <= OwnRow(m).delivered_num
        /\ OwnRow(m).delivered_num <= OwnRow(m).stable_num
        /\ OwnRow(m).stable_num <= OwnRow(m).seq_num

\* C5: stable_num of a member never exceeds the seq_num any shard member holds
\* in its own row.
Thm_C5 ==
    \A i, j \in Members : OwnRow(i).stable_num <= OwnRow(j).seq_num

Wit_C5 ==
    \E i, j \in Members :
        /\ i # j
        /\ OwnRow(i).stable_num >= 0
        /\ OwnRow(j).seq_num > OwnRow(i).stable_num
        /\ sst[i][j].seq_num < OwnRow(j).seq_num

\* every member has completed each send it began
AllSendsIssued == \A m \in Members : NoOutstandingBuffer(m)

\* member m has reported every message passed to send() exactly once, and
\* nothing else
DeliveredAll(m) ==
    /\ Len(upcalls[m]) = Cardinality({<<j, i>> \in Members \X (0 .. MaxIndex) : i \in sent_log[j]})
    /\ \A j \in Members : \A i \in sent_log[j] :
        Cardinality({k \in 1 .. Len(upcalls[m]) :
                        upcalls[m][k].sender = j /\ upcalls[m][k].index = i}) = 1

\* nothing that runs by itself can take a step: stuttering forever is a fair
\* behaviour from here
Quiescent == ~ENABLED <<SystemNext>>_vars

\* C6, in its finite-run form: in a failure-free Ordered view where every
\* member is a sender, once the members have issued their sends and nothing
\* more can happen by itself, every message passed to send() has been delivered
\* exactly once on every member.
Orig_C6 == (AllSendsIssued /\ Quiescent) => \A m \in Members : DeliveredAll(m)

\* C7 as stated: in an Ordered subgroup every transmission, bulk or slot, of a
\* message with index i happened with delivered_num of every shard member at
\* least (i - window_size) * num_shard_senders + my_sender_rank and, with
\* persistence enabled, persisted_num of every shard member at least the same.
Orig_C7 ==
    subgroup_to_mode = "ORDERED" =>
        \A m \in Members : \A rec \in tx_log[m] :
            rec.delivered_ok /\ (file_writer => rec.persisted_ok)

\* the sizes a caller may ask for without being refused for the size alone
FittingSizes == {p \in PayloadSizes : MsgSize(p, FALSE) <= max_msg_size}

\* the transport asked for can take one more message
HasRoom(m, medium) == IF medium THEN free_message_buffers[m] > 0 ELSE get_buffer_ok(m)

\* C8 as stated: in an Ordered subgroup get_sendbuffer_ptr returns None while
\* the window is full, and once some peer's delivered_num has reached the
\* threshold of the next index the call succeeds.
Orig_C8 ==
    subgroup_to_mode = "ORDERED" =>
        \A m \in Members : \A p \in FittingSizes : \A medium \in Mediums :
            LET threshold == (future_message_indices[m] - window_size) * num_shard_senders
                                + shard_sender_index(m)
            IN
            (/\ shard_sender_index(m) >= 0
             /\ ~thread_shutdown[m]
             /\ HasRoom(m, medium)
             /\ \E i \in Members \ {m} : sst[m][i].delivered_num >= threshold)
                => ~ReturnsNull(m, p, medium, FALSE)

\* C8 amended: in an Ordered subgroup get_sendbuffer_ptr returns None while the
\* window is full, and once the delivered_num of every shard member, the
\* caller's own included, has reached the threshold of the next index, the call
\* succeeds (the group not being wedged and the transport having room).
Thm_C8 ==
    subgroup_to_mode = "ORDERED" =>
        \A m \in Members : \A p \in FittingSizes : \A medium \in Mediums :
            shard_sender_index(m) >= 0 =>
                /\ ~DeliveredGate(m, future_message_indices[m])
                        => ReturnsNull(m, p, medium, FALSE)
                /\ (/\ DeliveredGate(m, future_message_indices[m])
                    /\ ~thread_shutdown[m]
                    /\ HasRoom(m, medium))
                        => ~ReturnsNull(m, p, medium, FALSE)

\* a second message is handed out after the window had been full
Wit_C8 ==
    /\ subgroup_to_mode = "ORDERED"
    /\ \E m \in Members :
        /\ next_sends[m] # None
        /\ next_sends[m].index >= window_size
        /\ \E i \in Members \ {m} : sst[m][i].delivered_num >= 0
        /\ ~DeliveredGate(m, future_message_indices[m])

\* C9 as stated: in a one-member Ordered subgroup with persistence and
\* window_size = 2, persisted_num is k only after the writer's callback for
\* record k has run, and get_sendbuffer_ptr for index 2 returns None as long as
\* the callback for message 0 has not run.
Orig_C9 ==
    (num_members = 1 /\ file_writer /\ window_size = 2 /\ subgroup_to_mode = "ORDERED") =>
        /\ OwnRow(0).persisted_num >= 0 =>
                \E k \in 1 .. Len(persist_log[0]) :
                    /\ persist_log[0][k].found
                    /\ persist_log[0][k].sequence_number = OwnRow(0).persisted_num
        /\ (/\ future_message_indices[0] = 2
            /\ \A k \in 1 .. Len(persist_log[0]) : persist_log[0][k].index # 0)
                => \A p \in FittingSizes : \A medium \in Mediums :
                        ReturnsNull(0, p, medium, FALSE)

\* C10 as stated: with persistence enabled every callback of the writer finds
\* the delivered message's entry under index * num_shard_senders + sender_rank,
\* whichever transport carried it and whatever the sender set is.
Orig_C10 ==
    \A m \in Members : \A k \in 1 .. Len(persist_log[m]) :
        LET rec == persist_log[m][k] IN
        /\ rec.found
        /\ rec.sequence_number = SeqOf(rec.index, shard_sender_index(rec.sender))

\* C11 as stated: once wedge() has returned at a member, no delivery, RPC or
\* persistence callback fires there any more, whatever transport completions,
\* writer callbacks and ragged-edge delivery follow, and every
\* get_sendbuffer_ptr call returns None.
Orig_C11 ==
    [][\A m \in Members : thread_shutdown[m] =>
            /\ upcalls'[m] = upcalls[m]
            /\ persist_log'[m] = persist_log[m]
            /\ \A p \in PayloadSizes, medium \in Mediums, null \in NullSends :
                    ReturnsNull(m, p, medium, null)]_vars

\* C12: wedge() on a group that is already wedged changes no state: the flag
\* stays set, no RDMC group number is passed to destroy_group a second time,
\* the sender thread is not joined again, and nothing else moves.
Thm_C12 ==
    [][(refused_calls' # refused_calls /\ refused_calls'[1].op = "wedge") =>
            UNCHANGED <<cfgvars, envvars, sst, msgvars, thrvars, netvars, histvars,
                        destroyed_groups, installed>>]_vars

Wit_C12 ==
    \E m \in Members :
        /\ refused_calls = <<RefusedCall("wedge", m)>>
        /\ thread_shutdown[m]
        /\ Len(destroyed_groups[m]) = num_members

\* C13 as stated: when a bulk send issued by the sender thread fails, the
\* thread exits and the group is wedged, so every later get_sendbuffer_ptr
\* returns None (and send returns false).
Orig_C13 ==
    \A m \in Members : sender_thread[m] = "failed" =>
        /\ thread_shutdown[m]
        /\ \A p \in PayloadSizes, medium \in Mediums, null \in NullSends :
                ReturnsNull(m, p, medium, null)

\* C14: a get_sendbuffer_ptr call that returns None leaves
\* future_message_indices, the free buffer pool, next_sends and
\* last_transfer_medium as they were.
Thm_C14 ==
    [][(refused_calls' # refused_calls /\ refused_calls'[1].op = "get_sendbuffer_ptr") =>
            UNCHANGED <<future_message_indices, free_message_buffers, next_sends,
                        last_transfer_medium>>]_vars

Wit_C14 ==
    \E m \in Members :
        /\ refused_calls = <<RefusedCall("get_sendbuffer_ptr", m)>>
        /\ ~thread_shutdown[m]
        /\ future_message_indices[m] > 0

\* C15 as stated: a null send gets a sequence number and, once stable, raises
\* delivered_num on every member without the stability callback being invoked.
\* A null send is the only message whose payload has length 0.
Orig_C15 ==
    \A m \in Members : \A k \in 1 .. Len(upcalls[m]) :
        ~(upcalls[m][k].kind = "stability" /\ upcalls[m][k].size = 0)

\* the indices a sender has handed out to the application
HandedOut(j) ==
    sent_log[j]
        \cup (IF next_sends[j] # None THEN {next_sends[j].index} ELSE {})
        \cup (IF queued_num[j] > num_sent[j]
              THEN {OwnRow(j).slots[num_sent[j] % window_size].h_index} ELSE {})

\* the indices a sender reserved with pause_sending_turns
PlaceholderIndices(j) == (0 .. future_message_indices[j] - 1) \ HandedOut(j)

UpcallFor(m, j, i) ==
    \E k \in 1 .. Len(upcalls[m]) : upcalls[m][k].sender = j /\ upcalls[m][k].index = i

\* placeholder i of sender j, once received at m, is a zero-size entry under
\* its sequence number until delivered_num has passed it
PlaceholderAt(m, j, i) ==
    LET seq == SeqOf(i, shard_sender_index(j)) IN
    \/ /\ seq \in DOMAIN locally_stable_rdmc_messages[m]
       /\ locally_stable_rdmc_messages[m][seq].size = 0
    \/ /\ seq \in DOMAIN locally_stable_sst_messages[m]
       /\ locally_stable_sst_messages[m][seq].size = 0
    \/ OwnRow(m).delivered_num >= seq

PlaceholdersOk ==
    \A m, j \in Members : shard_sender_index(j) >= 0 =>
        \A i \in PlaceholderIndices(j) :
            LET r == shard_sender_index(j) IN
            i \in received_intervals[m][r] =>
                /\ (\A k \in 0 .. i : k \in received_intervals[m][r])
                        => OwnRow(m).num_received[r] >= i
                /\ ~UpcallFor(m, j, i)
                /\ PlaceholderAt(m, j, i)

\* C16 as stated: a successful get_sendbuffer_ptr with pause_sending_turns = p
\* advances the next index by p + 1 on either transport; at every receiver the
\* p reserved indices are zero-size placeholders under their sequence numbers,
\* counted in num_received, advancing delivered_num, never upcalled.
Orig_C16 ==
    [][/\ \A m \in Members :
            future_message_indices'[m] # future_message_indices[m] =>
                \E p \in PauseTurns :
                    /\ future_message_indices'[m] = future_message_indices[m] + p + 1
                    /\ IF last_transfer_medium'[m]
                       THEN next_sends'[m].pause_sending_turns = p
                       ELSE sst'[m][m].slots[queued_num[m] % window_size].pause_sending_turns = p
       /\ PlaceholdersOk']_vars

\* C17 as stated: Ordered mode, sender rank 0 of 2 sets pause_sending_turns = 2
\* on one message: its indices advance by 3 turns, and the two zero-length
\* placeholders are delivered first, followed by the real message.
Orig_C17 ==
    LET j == shard_ranks_by_sender_rank(0) IN
    /\ future_message_indices[j] \in {0, 3}
    /\ \A m \in Members :
        UpcallFor(m, j, 0) => OwnRow(m).delivered_num >= SeqOf(2, 0)

\* C17, amended: the sender's indices advance by 3 turns; the real message is
\* delivered first, at the sender's first turn, and the two zero-length
\* placeholders follow it under the next two turns without any upcall.
Thm_C17 ==
    LET j == shard_ranks_by_sender_rank(0) IN
    /\ future_message_indices[j] \in {0, 3}
    /\ \A m \in Members :
        /\ OwnRow(m).delivered_num >= SeqOf(0, 0) => UpcallFor(m, j, 0)
        /\ \A i \in {1, 2} :
            /\ ~UpcallFor(m, j, i)
            /\ i \in received_intervals[m][0] => PlaceholderAt(m, j, i)
            /\ OwnRow(m).delivered_num >= SeqOf(i, 0) =>
                    /\ SeqOf(i, 0) \notin DOMAIN locally_stable_rdmc_messages[m]
                    /\ SeqOf(i, 0) \notin DOMAIN locally_stable_sst_messages[m]

Wit_C17 ==
    LET j == shard_ranks_by_sender_rank(0) IN
    \E m \in Members \ {j} :
        /\ OwnRow(m).delivered_num >= SeqOf(2, 0)
        /\ UpcallFor(m, j, 0)
        /\ upcalls[m][1].sender = j

\* the upcalls a step adds at member m
NewUpcalls(m) == SubSeq(upcalls'[m], Len(upcalls[m]) + 1, Len(upcalls'[m]))

\* the upcalls of a step at m are the stability upcalls for the messages of
\* each sender whose num_received the step advances, in index order
RawDeliversOnReceipt(m) ==
    /\ Len(upcalls'[m]) >= Len(upcalls[m])
    /\ SubSeq(upcalls'[m], 1, Len(upcalls[m])) = upcalls[m]
    /\ \A j \in Members : shard_sender_index(j) >= 0 =>
        LET r == shard_sender_index(j)
            new == SelectSeq(NewUpcalls(m), LAMBDA u : u.sender = j)
            range == (sst[m][m].num_received[r] + 1) .. sst'[m][m].num_received[r]
        IN
        /\ \A k \in 1 .. Len(new) : new[k].kind = "stability"
        /\ {new[k].index : k \in 1 .. Len(new)} = range \ PlaceholderIndices(j)
        /\ \A k \in 1 .. Len(new) - 1 : new[k].index < new[k + 1].index

\* C18 as stated: in a Raw subgroup every received message is delivered
\* through the stability upcall in the step in which the handler advances
\* num_received, in per-sender index order, without waiting for stable_num;
\* no receive handler stops on a message; stable_num and delivered_num stay -1.
Orig_C18 ==
    [][subgroup_to_mode = "RAW" =>
        \A m \in Members :
            /\ RawDeliversOnReceipt(m)
            /\ ~aborted'[m]
            /\ \A i \in Members :
                sst'[m][i].stable_num = -1 /\ sst'[m][i].delivered_num = -1]_vars

\* the buffers of member m that are not in the free list
BuffersInFlight(m) ==
    (IF next_sends[m] # None THEN 1 ELSE 0)
    + Len(pending_sends[m]) - (IF MovedFrom(m) THEN 1 ELSE 0)
    + (IF current_sends[m] # None THEN 1 ELSE 0)
    + Cardinality(DOMAIN current_receives[m])
    + Cardinality({k \in DOMAIN locally_stable_rdmc_messages[m] :
                        locally_stable_rdmc_messages[m][k].size > 0})
    + Cardinality(DOMAIN non_persistent_messages[m])

\* C19 as stated: at every member the free buffers and the buffers in flight (next,
\* pending and current sends, current receives, locally stable bulk messages,
\* not-yet-persisted messages) are window_size * shard size together.
Orig_C19 ==
    \A m \in Members :
        free_message_buffers[m] + BuffersInFlight(m) = window_size * num_members

\* C20: at every member the receive count of every sender, num_received at the
\* sender's rank in the member's own row, never decreases, whatever the order
\* in which bulk completions and slot receipts happen and whether or not an
\* arrival leaves a hole below it.
Thm_C20 ==
    [][\A m \in Members : \A r \in DOMAIN sst[m][m].num_received :
            sst'[m][m].num_received[r] >= sst[m][m].num_received[r]]_vars

\* a member has received an index of a sender above a missing one: the
\* arrival left a hole and the count stays below it
Wit_C20 ==
    \E m \in Members : \E r \in DOMAIN sst[m][m].num_received :
        \E i \in received_intervals[m][r] :
            /\ i > sst[m][m].num_received[r] + 1
            /\ (sst[m][m].num_received[r] + 1) \notin received_intervals[m][r]

\* the bound deliver_messages_upto was given for the sender of upcall u
BoundFor(max_indices_for_senders, u) ==
    max_indices_for_senders[shard_sender_index(u.sender)]

\* C22 as stated: the ragged-edge call deliver_messages_upto(max_index_per_sender)
\* delivers of every sender only messages whose index is at most the sender's
\* bound, also when another sender's bound implies a larger sequence number.
Orig_C22 ==
    [][\A m \in Members :
            (cleaned'[m] /\ ~cleaned[m]) =>
                \A k \in Len(upcalls[m]) + 1 .. Len(upcalls'[m]) :
                    upcalls'[m][k].index <= BoundFor(global_min'.min, upcalls'[m][k])]_vars

\* the (sender, index) pairs member m has delivered
DeliveredSet(m) == {Reported(m)[k] : k \in 1 .. Len(upcalls[m])}

\* the published frontier is the least receive count of the shard, per sender
FrontierAccurate ==
    /\ global_min.ready
    /\ \A s \in SenderRanks :
         global_min.min[s] = Min({OwnRow(i).num_received[s] : i \in Members})

\* C21 as stated: when the members of an Ordered subgroup have run the
\* ragged-edge cleanup on the frontier the shard leader published, and before
\* any of them builds the group of the next view, they have delivered the
\* same set of messages of the old view.
Orig_C21 ==
    (/\ subgroup_to_mode = "ORDERED"
     /\ FrontierAccurate
     /\ \A m \in Members : cleaned[m] /\ ~aborted[m]) =>
        \A m, n \in Members : DeliveredSet(m) = DeliveredSet(n)

\* C23 as stated: in an Ordered subgroup, after any sequence of delivery
\* predicate firings and deliver_messages_upto calls, delivered_num of a member
\* is the highest sequence number it has delivered: nothing it has reported to
\* the upcall lies above delivered_num.
Orig_C23 ==
    subgroup_to_mode = "ORDERED" =>
        \A m \in Members : \A k \in 1 .. Len(upcalls[m]) :
            UpcallSeq(upcalls[m][k]) <= OwnRow(m).delivered_num

\* the run met an I/O error: the file named by the first argument cannot be
\* created
ToolIoError == ~(argc < 2) /\ tool.argv[1] \notin tool.writable

\* C26 as stated: create_state_file exits with 0 on success, with 1 on a usage
\* error (no file name argument), having parsed and written nothing, and with
\* 2 on an I/O error.
Orig_C26 ==
    tool.pc = "done" =>
        /\ argc < 2 => /\ tool.exit = 1 /\ tool.signal = "none"
                       /\ ~tool.parsed /\ tool.files = {}
        /\ ToolIoError => tool.exit = 2 /\ tool.signal = "none"
        /\ (~(argc < 2) /\ ~ToolIoError /\ tool.stdin_ok) =>
                tool.exit = 0 /\ tool.signal = "none"

\* (min over senders of num_received + 1) * num_shard_senders + argmin - 1,
\* argmin the lowest sender rank attaining the minimum
SeqNumFormula(num_received) ==
    LET least == Min({num_received[r] : r \in DOMAIN num_received})
        argmin == Min({r \in DOMAIN num_received : num_received[r] = least})
    IN (least + 1) * num_shard_senders + argmin - 1

\* sequence number seq has been received locally by m, in order
ReceivedLocally(m, seq) ==
    LET r == seq % num_shard_senders IN
    \A i \in 0 .. (seq \div num_shard_senders) : i \in received_intervals[m][r]

\* C27: in every member's own row seq_num is (min over senders of
\* num_received + 1) * num_shard_senders + argmin - 1, and this is the largest
\* sequence number up to which every sequence number of the shard has been
\* received locally; the receive handlers of both paths keep it so.
Thm_C27 ==
    \A m \in Members :
        LET s == OwnRow(m).seq_num IN
        /\ s = SeqNumFormula(OwnRow(m).num_received)
        /\ \A t \in 0 .. s : ReceivedLocally(m, t)
        /\ ~ReceivedLocally(m, s + 1)

\* of two senders the lower-ranked one is ahead at some member, whose seq_num
\* then stops at the last message of that sender, below the sender behind
Wit_C27 ==
    \E m \in Members :
        /\ num_shard_senders = 2
        /\ OwnRow(m).num_received[0] > OwnRow(m).num_received[1]
        /\ OwnRow(m).seq_num = SeqOf(OwnRow(m).num_received[0], 0)
        /\ OwnRow(m).seq_num >= 0

\* the bulk messages of the old group's locally stable queue that m authored,
\* in sequence-number order
AuthoredStable(m) ==
    MapValues([k \in {x \in DOMAIN locally_stable_rdmc_messages[m] :
                        locally_stable_rdmc_messages[m][x].sender_id = m}
                 |-> locally_stable_rdmc_messages[m][k]])

\* what the constructor is to re-send: the authored locally stable messages,
\* the current send, the pending sends
ToResend(m) == AuthoredStable(m) \o OptionalMsg(current_sends[m]) \o pending_sends[m]

\* new holds the messages of old in the same order, numbered 0, 1, 2, ...
\* with the pause turns of each message skipped after it
Renumbered(old, new) ==
    /\ Len(new) = Len(old)
    /\ \A i \in 1 .. Len(old) :
        /\ new[i].size = old[i].size
        /\ new[i].h_index = old[i].h_index
        /\ new[i].index = IF i = 1 THEN 0
                          ELSE new[i - 1].index + 1 + old[i - 1].pause_sending_turns

\* C28 as stated: the view-transition constructor re-enqueues in the new
\* pending_sends every locally stable bulk message this node authored, then
\* the old current send, then the old pending sends, in the order in which
\* the user sent them and renumbered from 0 (plus pause turns), and returns
\* the buffer of every other locally stable bulk message to the free pool.
Orig_C28 ==
    [][\A m \in Members :
            view_transition(m) =>
                /\ installed'[m]
                /\ \A i, j \in 1 .. Len(ToResend(m)) :
                        i < j => ToResend(m)[i].index < ToResend(m)[j].index
                /\ Renumbered(ToResend(m), pending_sends'[m])
                /\ locally_stable_rdmc_messages'[m] = EmptyMap
                /\ free_message_buffers'[m] >= free_message_buffers[m]
                      + Cardinality({k \in DOMAIN locally_stable_rdmc_messages[m] :
                            /\ locally_stable_rdmc_messages[m][k].sender_id # m
                            /\ locally_stable_rdmc_messages[m][k].size > 0})]_vars

\* C29 as stated: after the view-transition constructor, for every subgroup
\* the node belongs to, every entry of the old non_persistent_messages and
\* non_persistent_sst_messages is in the new group's queue of that subgroup.
Orig_C29 ==
    handoff.pc = "done" =>
        \A g \in DOMAIN handoff.given_npm :
            /\ DOMAIN handoff.new_npm[g] = DOMAIN handoff.given_npm[g]
            /\ DOMAIN handoff.new_npsm[g] = DOMAIN handoff.given_npsm[g]

\* C30 as stated: after the view-transition constructor every message of the
\* new pending_sends carries in its header the index the renumbering gave it,
\* the index at which a receiver of the new view will sequence it.
Orig_C30 ==
    \A m \in Members :
        installed[m] =>
            \A i \in 1 .. Len(pending_sends[m]) :
                pending_sends[m][i].h_index = pending_sends[m][i].index

\* per member nInstalled <= nCommitted <= nAcked <= nChanges
GmsOrdered ==
    \A m \in GmsNodes :
        /\ OwnGms(m).nInstalled <= OwnGms(m).nCommitted
        /\ OwnGms(m).nCommitted <= OwnGms(m).nAcked
        /\ OwnGms(m).nAcked <= OwnGms(m).nChanges

\* no running node reads, in any row, an nCommitted above the nAcked of a
\* running node
ObservedCommitted ==
    \A m \in GmsNodes \ crashed : \A l \in GmsNodes : \A j \in GmsNodes \ crashed :
        gmsSST[m][l].nCommitted <= OwnGms(j).nAcked

\* a step in which a leader's nCommitted changes sets it to the leader's
\* nChanges and starts where every member the leader has not marked failed has
\* nAcked equal to that nChanges
CommitStep ==
    \A m \in GmsNodes :
        (/\ rank_of_leader(curr_view[m]) = m
         /\ gmsSST'[m][m].nCommitted # gmsSST[m][m].nCommitted)
        => /\ gmsSST'[m][m].nCommitted = gmsSST[m][m].nChanges
           /\ \A j \in curr_view[m].members \ curr_view[m].failed :
                  gmsSST[j][j].nAcked = gmsSST[m][m].nChanges

\* C24: the leader sets nCommitted = nChanges only in a state where every
\* non-failed member has nAcked equal to the leader's nChanges; no member
\* observes an nCommitted greater than the nAcked of a non-failed member; and
\* per member nInstalled <= nCommitted <= nAcked <= nChanges always holds.
Thm_C24 == [](GmsOrdered /\ ObservedCommitted) /\ [][CommitStep]_vars

\* a leader has committed a proposal that a running follower, not marked
\* failed, acknowledged, and the follower reads the commit before installing
Wit_C24 ==
    \E m \in GmsNodes \ crashed : \E j \in GmsNodes \ crashed :
        /\ j # m
        /\ rank_of_leader(curr_view[m]) = m
        /\ j \in curr_view[m].members \ curr_view[m].failed
        /\ OwnGms(m).nCommitted > 0
        /\ OwnGms(m).nCommitted = OwnGms(m).nChanges
        /\ OwnGms(j).nAcked = OwnGms(m).nChanges
        /\ gmsSST[j][m].nCommitted = OwnGms(m).nCommitted
        /\ OwnGms(j).nInstalled < OwnGms(m).nCommitted

Suspected(j) == \E k \in GmsNodes : j \in OwnGms(k).suspected

Excludes(m, j) == j \notin curr_view[m].members

IndicesOf(msg) == msg.index .. msg.index + msg.pause_sending_turns

\* C31 as stated: after the view transition every index below
\* future_message_indices in the new group is the index of a message that is
\* to be transmitted (queued in pending_sends or held in next_sends) or a
\* pause turn of one, so that no index the sender thread waits for is missing.
Orig_C31 ==
    \A m \in Members :
        installed[m] =>
            \A i \in 0 .. future_message_indices[m] - 1 :
                \/ \E k \in 1 .. Len(pending_sends[m]) : i \in IndicesOf(pending_sends[m][k])
                \/ next_sends[m] # None /\ i \in IndicesOf(next_sends[m])

\* C32 as stated: wedge() always terminates; whatever the interleaving with
\* the sender thread, once wedge() has been called the sender thread sees the
\* flag, leaves its loop and is joined.
Orig_C32 == (loop.wedge # "none") ~> (loop.wedge = "returned")

\* C34: the sender thread serves the subgroups round-robin; a subgroup whose
\* head stays admissible is sent within total_num_subgroups sends, however
\* many sends the other subgroups have pending.
Thm_C34 ==
    \A g \in LoopSubgroups : loop.waited[g] <= Cardinality(LoopSubgroups) - 1

\* a subgroup has waited through the sends of all the others, which are
\* admissible again, and is the one the scan has picked
Wit_C34 ==
    \E g \in LoopSubgroups :
        /\ loop.waited[g] = Cardinality(LoopSubgroups) - 1
        /\ \A h \in LoopSubgroups : loop.admissible[h]
        /\ loop.pc = "woken"
        /\ loop.subgroup_to_send = g

\* C33: whenever the sender thread moves a message from pending_sends into
\* current_sends, current_sends is empty, and the message's index is greater
\* than the index of every bulk send this node issued before.
Thm_C33 ==
    [][\A m \in Members :
            (current_sends'[m] # None /\ current_sends'[m] # current_sends[m])
            => /\ current_sends[m] = None
               /\ current_sends'[m] = Head(pending_sends[m])
               /\ \A t \in tx_log[m] : t.medium => t.index < current_sends'[m].index]_vars

\* a node has issued its second bulk send, the first having completed
Wit_C33 ==
    \E m \in Members :
        /\ current_sends[m] # None
        /\ \E t \in tx_log[m] : t.medium /\ t.index < current_sends[m].index
        /\ \E t \in tx_log[m] : t.medium /\ t.index = current_sends[m].index

\* C35 as stated: whatever the order of get_sendbuffer_ptr and send calls, the
\* message of a reserved index stays where send() can commit it (it leaves
\* next_sends only into pending_sends), and a call leaves the number of pool
\* buffers, free or in flight, unchanged.
Orig_C35 ==
    [][\A m \in Members :
            (~aborted'[m] /\ installed'[m] = installed[m])
            => /\ (next_sends[m] # None /\ next_sends'[m] # next_sends[m])
                    => pending_sends'[m] = Append(pending_sends[m], next_sends[m])
               /\ (future_message_indices'[m] # future_message_indices[m]
                   \/ sent_log'[m] # sent_log[m])
                    => free_message_buffers'[m] + BuffersInFlight(m)'
                            = free_message_buffers[m] + BuffersInFlight(m)]_vars

\* the slot messages member m borrows: queued for delivery or for the file writer
HeldSlotMessages(m) ==
    {locally_stable_sst_messages[m][k] : k \in DOMAIN locally_stable_sst_messages[m]}
        \cup {non_persistent_sst_messages[m][k] : k \in DOMAIN non_persistent_sst_messages[m]}

\* C36 as stated: while a member holds a slot message in its locally-stable queue
\* or in its not-yet-persisted queue, the slot of the sender's row it points to
\* still carries that message (the sender has not written a later one over it).
Orig_C36 ==
    \A m \in Members : \A msg \in HeldSlotMessages(m) :
        (msg.size > 0 /\ installed[m] = installed[msg.sender_id])
            => sst[msg.sender_id][msg.sender_id].slots[msg.buf].h_index = msg.index

\* the upcalls member n made for messages of sender j
UpcallsFrom(n, j) == {k \in 1 .. Len(upcalls[n]) : upcalls[n][k].sender = j}

\* C37 as stated: no member passes a message to the delivery upcall twice.
\* Within a view no two upcalls of a member carry the same sender and index;
\* over the run, with authors that only re-send in the next view, a member
\* makes no more upcalls for a sender than that sender's application sent.
Orig_C37 ==
    \A n \in Members :
        /\ ~installed[n] =>
             \A k, l \in 1 .. Len(upcalls[n]) :
                (upcalls[n][k].sender = upcalls[n][l].sender
                    /\ upcalls[n][k].index = upcalls[n][l].index) => k = l
        /\ \A j \in Members : Cardinality(UpcallsFrom(n, j)) <= Cardinality(sent_log[j])

\* the four counters of member m's own row
OwnCounters(m) ==
    <<OwnRow(m).seq_num, OwnRow(m).stable_num, OwnRow(m).delivered_num, OwnRow(m).persisted_num>>

Orig_C39 ==
    /\ Len(poll.entries) <= Len(poll.taken)
    /\ \A k \in 1 .. Len(poll.entries) :
        /\ k <= Len(poll.taken)
        /\ poll.entries[k].wr_id = poll.taken[k].wr_id
        /\ poll.entries[k].qp_num = poll.taken[k].qp_num
        /\ poll.entries[k].result = 1 <=> poll.taken[k].status = "success"

====
